---- MODULE Spec2Model ----
(***************************************************************************)
(* Garden federation reconciliation and routing (beer_garden/garden.py)    *)
(* with the connection parameter schemas of db/schemas/garden_schema.py.   *)
(*                                                                         *)
(* A parameter dictionary is a function from keys to values; a value is a  *)
(* record [k, n, s]: k is the Python type ("str", "int", "bool", "none",   *)
(* "dict", "list"), n the number (for bool: 1/0, for list: its length), s  *)
(* the string.  The nested dictionary stored under the stomp key "ssl" is  *)
(* kept by path: "ssl" maps to a value of type "dict" and "ssl.use_ssl",   *)
(* "ssl.extra" hold the entries of that dictionary.                        *)
(***************************************************************************)
EXTENDS Integers, Sequences, FiniteSets, TLC

VARIABLES
    stored,      \* SpecClean, SpecRaw: the records held; SpecValidate: the input
    returned,    \* what get_garden / get_gardens, the reconciler or the load handed back
    recleaned,   \* SpecClean: the returned gardens, reconciled once more
    notes,       \* SpecClean: per returned garden, the notes of the last reconciliation
    phase,       \* "stored" | "read" | "again" | "raised" | "validated"
    db,          \* Spec: garden records by name
    registry,    \* Spec, SpecAdmin: the systems known to get_systems
    now,         \* Spec: datetime.utcnow(), a counter
    published,   \* Spec: events published by the last operation, in order
    routed,      \* Spec: operations handed to the router by the last operation
    last,        \* Spec: the last operation, its input and the database before it
    inflight,    \* SpecTree: routed operations not yet delivered
                 \* SpecRace: the invocations running, by number
    received,    \* SpecTree: the operations delivered, with the garden each reached
    snapshots,   \* SpecTree: the events published, with the garden that published each
                 \*           and whether the bus has handed it to that garden's parent
    started,     \* SpecTree: TRUE once the root was asked to sync
    federation,  \* SpecTree: per garden of the tree, its parent, database and systems
    request      \* SpecTree: the sync_target of the call that started the sync

vars == <<stored, returned, recleaned, notes, phase, db, registry, now, published,
          routed, last, inflight, received, snapshots, started, federation, request>>

cleanVars == <<stored, returned, recleaned, notes, phase>>
svcVars == <<db, registry, now, published, routed, last>>
treeVars == <<inflight, received, snapshots, started, federation, request>>

-----------------------------------------------------------------------------
(* Values *)

StrV(s) == [k |-> "str", n |-> 0, s |-> s]
IntV(n) == [k |-> "int", n |-> n, s |-> ""]
BoolV(b) == [k |-> "bool", n |-> IF b THEN 1 ELSE 0, s |-> ""]
NoneV == [k |-> "none", n |-> 0, s |-> ""]
DictV == [k |-> "dict", n |-> 0, s |-> ""]
\* a list of n entries; s = "bad" when some entry is not a {key, value} pair of strings
ListV(n, s) == [k |-> "list", n |-> n, s |-> s]
\* marshmallow's `missing` and a failed field
MissingV == [k |-> "missing", n |-> 0, s |-> ""]
InvalidV == [k |-> "invalid", n |-> 0, s |-> ""]

EmptyDict == [x \in {} |-> NoneV]

Get(d, key) == IF key \in DOMAIN d THEN d[key] ELSE MissingV
Put(d, key, v) == [x \in DOMAIN d \cup {key} |-> IF x = key THEN v ELSE d[x]]
Pop(d, key) == [x \in DOMAIN d \ {key} |-> d[x]]
\* {**a, **b}
Merge(a, b) == [x \in DOMAIN a \cup DOMAIN b |-> IF x \in DOMAIN b THEN b[x] ELSE a[x]]

-----------------------------------------------------------------------------
(* garden_schema.py: field deserializers (marshmallow 2, strict schemas) *)

PortHigh == 65535

\* the range check with the upper bound included
MutPortInclusive(value) == 0 < value /\ value <= PortHigh

_port_validator(value) == 0 < value /\ value < PortHigh

\* int(s) for the strings the model uses; -1 stands for ValueError
ParseInt(s) ==
    CASE s = "2337" -> 2337
      [] s = "10119" -> 10119
      [] s = "0" -> 0
      [] s = "65535" -> 65535
      [] OTHER -> -1

\* fields.String: only strings pass; None passes when allow_none
StringField(v, allow_none) ==
    CASE v.k = "str" -> v
      [] v.k = "none" -> IF allow_none THEN v ELSE InvalidV
      [] OTHER -> InvalidV

\* fields.Integer(validate=_port_validator): int(value), then the range
PortField(v) ==
    LET num == CASE v.k = "int" -> v.n
                 [] v.k = "bool" -> v.n
                 [] v.k = "str" -> ParseInt(v.s)
                 [] OTHER -> -1
        ok == v.k \in {"int", "bool"} \/ (v.k = "str" /\ ParseInt(v.s) # -1)
    IN IF ok /\ _port_validator(num) THEN IntV(num) ELSE InvalidV

\* fields.Boolean: the truthy / falsy sets
BooleanField(v) ==
    CASE v.k = "bool" -> v
      [] v.k = "int" /\ v.n \in {0, 1} -> BoolV(v.n = 1)
      [] v.k = "str" /\ v.s \in {"true", "True", "1"} -> BoolV(TRUE)
      [] v.k = "str" /\ v.s \in {"false", "False", "0"} -> BoolV(FALSE)
      [] OTHER -> InvalidV

\* fields.Nested: the value has to be a dictionary
NestedField(v) == IF v.k = "dict" THEN v ELSE InvalidV

\* fields.List(fields.Nested("StompHeaderSchema"))
HeadersField(v) == IF v.k = "list" /\ v.s # "bad" THEN v ELSE InvalidV

\* Unmarshaller: a key that is absent takes the field's `missing` default when it
\* has one; without a value a required field fails and any other is left out of
\* the data (MissingV); value is what the field's deserializer makes of the rest.
LoadField(raw, has_default, required, value) ==
    IF raw.k = "missing" /\ ~has_default
    THEN IF required THEN InvalidV ELSE MissingV
    ELSE value

HttpFields == {"host", "port", "url_prefix", "ca_cert", "ca_verify",
               "client_cert", "client_key", "ssl"}

\* HttpConnectionParamsSchema, field by field
HttpField(d, f) ==
    CASE f = "host" -> LoadField(Get(d, f), FALSE, TRUE, StringField(Get(d, f), FALSE))
      [] f = "port" -> LoadField(Get(d, f), FALSE, TRUE, PortField(Get(d, f)))
      [] f = "url_prefix" ->
            LoadField(Get(d, f), FALSE, TRUE, StringField(Get(d, f), FALSE))
      [] f \in {"ca_verify", "ssl"} ->
            LoadField(Get(d, f), TRUE, TRUE,
                      BooleanField(IF f \in DOMAIN d THEN d[f] ELSE BoolV(FALSE)))
      [] OTHER -> LoadField(Get(d, f), FALSE, FALSE, StringField(Get(d, f), TRUE))

\* a schema that is open: no key counts as extraneous
MutExtraKeysAllowed(original, data) == {}

\* GardenBaseSchema.validate_all_keys: keys of the input the data does not have
ExtraKeys(original, data) == DOMAIN original \ DOMAIN data

\* Schema(strict=True).load(original): loaded holds every field's outcome.
\* valid = no ValidationError; data = the fields that loaded.
LoadData(loaded) ==
    [f \in {g \in DOMAIN loaded : loaded[g].k \notin {"missing", "invalid"}} |-> loaded[f]]

LoadResult(original, loaded, data) ==
    [valid |-> /\ \A f \in DOMAIN loaded : loaded[f].k # "invalid"
               /\ ExtraKeys(original, data) = {},
     data |-> data]

Load(original, loaded) == LoadResult(original, loaded, LoadData(loaded))

_validate_http_connection_params(conn_params) ==
    Load(conn_params, [f \in HttpFields |-> HttpField(conn_params, f)])

StompSslKeys == {"ssl.use_ssl", "ssl.extra"}
StompSslFields == {"ssl.use_ssl"}
StompFields == {"ssl", "headers", "host", "port", "send_destination",
                "subscribe_destination", "username", "password"}

\* the dictionary stored under "ssl", and the dictionary around it
SslDict(d) == [x \in DOMAIN d \cap StompSslKeys |-> d[x]]
StompTop(d) == [x \in DOMAIN d \ StompSslKeys |-> d[x]]

\* StompSSLParamsSchema
SslField(d, f) == LoadField(Get(d, f), FALSE, TRUE, BooleanField(Get(d, f)))

LoadSsl(d) == Load(SslDict(d), [f \in StompSslFields |-> SslField(d, f)])

\* StompConnectionParamsSchema, field by field; ssl_valid: the nested load passed
StompField(d, f, ssl_valid) ==
    CASE f = "ssl" ->
            LoadField(Get(d, f), FALSE, TRUE,
                      IF NestedField(Get(d, f)).k = "dict" /\ ssl_valid
                      THEN Get(d, f) ELSE InvalidV)
      [] f = "headers" -> LoadField(Get(d, f), FALSE, FALSE, HeadersField(Get(d, f)))
      [] f = "host" -> LoadField(Get(d, f), FALSE, TRUE, StringField(Get(d, f), FALSE))
      [] f = "port" -> LoadField(Get(d, f), FALSE, TRUE, PortField(Get(d, f)))
      [] OTHER -> LoadField(Get(d, f), FALSE, FALSE, StringField(Get(d, f), TRUE))

\* the nested data goes under "ssl" when that field loaded
StompResult(top, ssl) ==
    [valid |-> top.valid,
     data |-> IF "ssl" \in DOMAIN top.data THEN Merge(top.data, ssl.data) ELSE top.data]

LoadStomp(d, ssl) ==
    StompResult(Load(StompTop(d), [f \in StompFields |-> StompField(d, f, ssl.valid)]), ssl)

_validate_stomp_connection_params(conn_params) == LoadStomp(conn_params, LoadSsl(conn_params))

-----------------------------------------------------------------------------
(* garden.py: the safe defaults *)

SensiblePort == 1025

\* what YapconfSpec(_CONNECTION_SPEC).load_config({"bg_host": ""}) hands back for
\* the keys of config_map (brewtils' own defaults)
LoadedDefaults ==
    [key \in {"bg_host", "bg_port", "ssl_enabled", "bg_url_prefix", "ca_cert",
              "ca_verify", "client_cert"} |->
        CASE key = "bg_host" -> StrV("")
          [] key = "bg_port" -> IntV(2337)
          [] key = "ssl_enabled" -> BoolV(FALSE)
          [] key = "bg_url_prefix" -> StrV("/")
          [] key = "ca_verify" -> BoolV(TRUE)
          [] OTHER -> NoneV]

\* Python truthiness of a value
Truthy(v) ==
    CASE v.k = "str" -> v.s # ""
      [] v.k \in {"int", "bool"} -> v.n # 0
      [] v.k = "none" -> FALSE
      [] OTHER -> TRUE

get_connection_defaults ==
    LET bad_defaults == {"ssl_enabled", "ca_verify"}
        sensible_defaults ==
            [key \in {"bg_host", "bg_port", "ssl_enabled", "bg_url_prefix", "ca_verify"} |->
                CASE key = "bg_host" -> StrV("child_hostname")
                  [] key = "bg_port" -> IntV(SensiblePort)
                  [] key = "bg_url_prefix" -> StrV("/")
                  [] OTHER -> BoolV(FALSE)]
    IN [key \in DOMAIN LoadedDefaults |->
          IF key \in bad_defaults THEN sensible_defaults[key]
          ELSE IF Truthy(LoadedDefaults[key]) THEN LoadedDefaults[key]
          ELSE IF key \in DOMAIN sensible_defaults THEN sensible_defaults[key]
          ELSE StrV("")]

\* the defaults with the port left as text
MutStringPortDefaults ==
    [f \in {"host", "port", "ssl", "url_prefix", "ca_cert", "ca_verify", "client_cert"} |->
        CASE f = "host" -> StrV("child_hostname")
          [] f = "port" -> StrV("2337")
          [] f = "url_prefix" -> StrV("/")
          [] f \in {"ssl", "ca_verify"} -> BoolV(FALSE)
          [] OTHER -> StrV("")]

_create_basic_connection_defaults ==
    LET defaults == get_connection_defaults
    IN [f \in {"host", "port", "ssl", "url_prefix", "ca_cert", "ca_verify", "client_cert"} |->
          CASE f = "host" -> defaults["bg_host"]
            [] f = "port" -> defaults["bg_port"]
            [] f = "ssl" -> defaults["ssl_enabled"]
            [] f = "url_prefix" -> defaults["bg_url_prefix"]
            [] OTHER -> defaults[f]]

-----------------------------------------------------------------------------
(* garden.py: the reconciler.  A parameter value handed to a helper is       *)
(* [none |-> TRUE] for None / an absent key, else [none |-> FALSE, d |-> dict] *)

NoParams == [none |-> TRUE, d |-> EmptyDict]
Params(d) == [none |-> FALSE, d |-> d]

MsgAllDefaults == "Used defaults for all values of http connection params"
MsgSomeDefaults == "Used defaults for some values of http connection params"
MsgHttpUnparseable == "Unable to parse http connection params"
MsgNoStomp == "No stomp connection params provided"
MsgStompUnparseable == "Unable to parse stomp connection params"
MsgRemovedStomp == "Removed unparseable stomp connnection params"
MsgForceHttp == "Forcing connection type to HTTP"
MsgRemovedHttp == "Removed unparseable http configuration params"
MsgLocal == "Removed connection params for local garden"

\* first: the params validated; second: the params merged over the defaults, validated
OrDefault(params, defaults, first, second) ==
    IF params.none
    THEN [params |-> defaults, messages |-> <<MsgAllDefaults>>]
    ELSE IF first.valid
    THEN [params |-> first.data, messages |-> << >>]
    ELSE IF second.valid
    THEN [params |-> second.data, messages |-> <<MsgSomeDefaults>>]
    ELSE [params |-> defaults, messages |-> <<MsgAllDefaults>>]

\* the salvage step without the last fallback: the merged input is kept as it is
MutHttpNoFallback(params) ==
    OrDefault(params, _create_basic_connection_defaults,
              _validate_http_connection_params(params.d),
              [valid |-> TRUE, data |-> Merge(_create_basic_connection_defaults, params.d)])

\* the defaults handed out whatever was stored
MutHttpAlwaysDefaults(params) ==
    OrDefault(NoParams, _create_basic_connection_defaults,
              _validate_http_connection_params(params.d),
              _validate_http_connection_params(
                  Merge(_create_basic_connection_defaults, params.d)))

\* absent http params left empty instead of defaulted
MutHttpEmptyWhenAbsent(params) ==
    OrDefault(params, EmptyDict,
              _validate_http_connection_params(params.d),
              _validate_http_connection_params(
                  Merge(_create_basic_connection_defaults, params.d)))

\* the salvage step merging the defaults over the stored params
MutHttpDefaultsOverSupplied(params) ==
    OrDefault(params, _create_basic_connection_defaults,
              _validate_http_connection_params(params.d),
              _validate_http_connection_params(
                  Merge(params.d, _create_basic_connection_defaults)))

\* the note of the last fallback replaced by the note of the salvage step
Relabel(params, r) ==
    IF ~params.none /\ r.messages = <<MsgAllDefaults>>
    THEN [r EXCEPT !.messages = <<MsgSomeDefaults>>]
    ELSE r

MutHttpFallbackSaysSome(params) ==
    Relabel(params,
            OrDefault(params, _create_basic_connection_defaults,
                      _validate_http_connection_params(params.d),
                      _validate_http_connection_params(
                          Merge(_create_basic_connection_defaults, params.d))))

_clean_or_default_http_connection_params(params) ==
    OrDefault(params, _create_basic_connection_defaults,
              _validate_http_connection_params(params.d),
              _validate_http_connection_params(
                  Merge(_create_basic_connection_defaults, params.d)))

\* result: the params validated
OrEmpty(params, result, none_messages, invalid_messages) ==
    IF params.none
    THEN [params |-> EmptyDict, messages |-> none_messages]
    ELSE IF result.valid
    THEN [params |-> result.data, messages |-> << >>]
    ELSE [params |-> EmptyDict, messages |-> invalid_messages]

\* http params that fail validation handed back as they are
MutHttpKeptWhenInvalid(params) ==
    OrEmpty(params, [valid |-> TRUE,
                     data |-> IF _validate_http_connection_params(params.d).valid
                              THEN _validate_http_connection_params(params.d).data
                              ELSE params.d],
            << >>, <<MsgHttpUnparseable>>)

\* absent http params defaulted under the empty-on-failure policy
MutHttpDefaultWhenAbsent(params) ==
    IF params.none
    THEN [params |-> _create_basic_connection_defaults, messages |-> <<MsgAllDefaults>>]
    ELSE OrEmpty(params, _validate_http_connection_params(params.d),
                 << >>, <<MsgHttpUnparseable>>)

_clean_or_empty_http_connection_params(params) ==
    OrEmpty(params, _validate_http_connection_params(params.d),
            << >>, <<MsgHttpUnparseable>>)

\* the validated stomp params never assigned
MutStompAlwaysEmpty(params) ==
    OrEmpty(params, [valid |-> FALSE, data |-> EmptyDict],
            <<MsgNoStomp>>, <<MsgStompUnparseable>>)

\* stomp params that fail validation handed back as they are
MutStompKeptWhenInvalid(params) ==
    OrEmpty(params, [valid |-> TRUE,
                     data |-> IF _validate_stomp_connection_params(params.d).valid
                              THEN _validate_stomp_connection_params(params.d).data
                              ELSE params.d],
            <<MsgNoStomp>>, <<MsgStompUnparseable>>)

_clean_or_empty_stomp_connection_params(params) ==
    OrEmpty(params, _validate_stomp_connection_params(params.d),
            <<MsgNoStomp>>, <<MsgStompUnparseable>>)

\* conn_params.get(key, None): the value under key, None when the key is absent
CpGet(cp, key) == IF key \in DOMAIN cp THEN cp[key] ELSE NoParams
CpPut(cp, key, d) == [x \in DOMAIN cp \cup {key} |-> IF x = key THEN Params(d) ELSE cp[x]]
CpPop(cp, key) == [x \in DOMAIN cp \ {key} |-> cp[x]]
EmptyCp == [x \in {} |-> NoParams]

Cleaned(connection_type, connection_params, messages) ==
    [connection_type |-> connection_type, connection_params |-> connection_params,
     messages |-> messages]

\* the branches of clean_garden_connection_params for a garden that is not LOCAL;
\* stomp, dflt, empt: what the three helpers made of the stored values
CleanBranches(connection_type, conn_params, stomp, dflt, empt) ==
    IF connection_type = "HTTP"
    THEN IF stomp.params # EmptyDict
         THEN Cleaned(connection_type,
                      CpPut(CpPut(conn_params, "http", dflt.params), "stomp", stomp.params),
                      dflt.messages \o stomp.messages)
         ELSE Cleaned(connection_type,
                      CpPop(CpPut(conn_params, "http", dflt.params), "stomp"),
                      (IF CpGet(conn_params, "stomp").none THEN << >>
                       ELSE <<MsgRemovedStomp>>) \o dflt.messages \o stomp.messages)
    ELSE IF "stomp" \notin DOMAIN conn_params \/ stomp.params = EmptyDict
    THEN Cleaned("HTTP",
                 CpPop(CpPut(conn_params, "http", dflt.params), "stomp"),
                 <<MsgForceHttp>> \o dflt.messages \o stomp.messages)
    ELSE IF "http" \in DOMAIN conn_params /\ empt.params = EmptyDict
    THEN Cleaned(connection_type,
                 CpPop(CpPut(conn_params, "stomp", stomp.params), "http"),
                 <<MsgRemovedHttp>> \o empt.messages \o stomp.messages)
    ELSE IF empt.params # EmptyDict
    THEN Cleaned(connection_type,
                 CpPut(CpPut(conn_params, "stomp", stomp.params), "http", empt.params),
                 empt.messages \o stomp.messages)
    ELSE Cleaned(connection_type,
                 CpPut(conn_params, "stomp", stomp.params),
                 empt.messages \o stomp.messages)

KeepType(connection_type, c) == [c EXCEPT !.connection_type = connection_type]

\* the reconciliation without the demotion: the stored type is kept
MutCleanRemoteNoDemote(connection_type, conn_params) ==
    KeepType(connection_type,
             CleanBranches(connection_type, conn_params,
                 _clean_or_empty_stomp_connection_params(CpGet(conn_params, "stomp")),
                 _clean_or_default_http_connection_params(CpGet(conn_params, "http")),
                 _clean_or_empty_http_connection_params(CpGet(conn_params, "http"))))

\* an HTTP garden with unusable http and usable stomp params treated as STOMP
MutCleanRemotePromotes(connection_type, conn_params) ==
    CleanBranches(IF /\ connection_type = "HTTP"
                     /\ ~_validate_http_connection_params(CpGet(conn_params, "http").d).valid
                     /\ _validate_stomp_connection_params(CpGet(conn_params, "stomp").d).valid
                  THEN "STOMP" ELSE connection_type,
                  conn_params,
                  _clean_or_empty_stomp_connection_params(CpGet(conn_params, "stomp")),
                  _clean_or_default_http_connection_params(CpGet(conn_params, "http")),
                  _clean_or_empty_http_connection_params(CpGet(conn_params, "http")))

\* a garden without a type reconciled through the HTTP branch, its type kept
MutCleanRemoteNullAsHttp(connection_type, conn_params) ==
    KeepType(connection_type,
             CleanBranches(IF connection_type = "STOMP" THEN "STOMP" ELSE "HTTP",
                 conn_params,
                 _clean_or_empty_stomp_connection_params(CpGet(conn_params, "stomp")),
                 _clean_or_default_http_connection_params(CpGet(conn_params, "http")),
                 _clean_or_empty_http_connection_params(CpGet(conn_params, "http"))))

CleanRemote(connection_type, conn_params) ==
    CleanBranches(connection_type, conn_params,
                  _clean_or_empty_stomp_connection_params(CpGet(conn_params, "stomp")),
                  _clean_or_default_http_connection_params(CpGet(conn_params, "http")),
                  _clean_or_empty_http_connection_params(CpGet(conn_params, "http")))

\* the LOCAL branch returning the garden as stored
MutCleanParamsLocalKept(connection_type, conn_params) ==
    IF connection_type = "LOCAL"
    THEN Cleaned(connection_type, conn_params, << >>)
    ELSE CleanRemote(connection_type, conn_params)

\* clean_garden_connection_params on the fields it reads and writes
CleanParams(connection_type, conn_params) ==
    IF connection_type = "LOCAL"
    THEN Cleaned(connection_type, EmptyCp,
                 IF conn_params # EmptyCp THEN <<MsgLocal>> ELSE << >>)
    ELSE CleanRemote(connection_type, conn_params)

WithCleaned(garden, c) ==
    [garden EXCEPT !.connection_type = c.connection_type,
                   !.connection_params = c.connection_params]

clean_garden_connection_params(garden) ==
    WithCleaned(garden, CleanParams(garden.connection_type, garden.connection_params))

CleanNotes(garden) == CleanParams(garden.connection_type, garden.connection_params).messages

\* a stored value that is no dictionary (a string, a list, a number); it fails both
\* schemas ("Invalid input type"), as the empty dictionary d does
NotMapping == [none |-> FALSE, d |-> EmptyDict, text |-> "abc"]

\* {**_create_basic_connection_defaults(), **params}: TypeError unless params is a
\* mapping; reached when params is not None and failed the first validation
MergeRaises(params) == ~params.none /\ params = NotMapping

\* the branches of clean_garden_connection_params that call
\* _clean_or_default_http_connection_params; stomp: what the stomp helper returned
UsesDefaultPolicy(connection_type, conn_params, stomp) ==
    \/ connection_type = "HTTP"
    \/ "stomp" \notin DOMAIN conn_params
    \/ stomp.params = EmptyDict

\* clean_garden_connection_params lets an error other than ValidationError through
CleanRaises(garden) ==
    /\ garden.connection_type # "LOCAL"
    /\ UsesDefaultPolicy(garden.connection_type, garden.connection_params,
                         _clean_or_empty_stomp_connection_params(
                             CpGet(garden.connection_params, "stomp")))
    /\ MergeRaises(CpGet(garden.connection_params, "http"))

-----------------------------------------------------------------------------
(* garden.py: reading gardens.  A database is a function from garden names  *)
(* to garden records; a registry (reg) is the set of systems get_systems knows.   *)

LocalName == "localgarden"

\* some enumeration of a finite set
RECURSIVE SetToSeq(_)
SetToSeq(S) ==
    IF S = {} THEN <<>>
    ELSE LET x == CHOOSE y \in S : TRUE IN <<x>> \o SetToSeq(S \ {x})

\* beer_garden.systems.get_systems(filter_params): all systems, or the local ones
get_systems(reg, all_systems) ==
    SetToSeq({s \in reg : all_systems \/ s.local})

\* beer_garden.namespace.get_namespaces(): the namespaces in use
get_namespaces(reg) == SetToSeq({s.namespace : s \in reg})

\* db.query_unique(BrewtilsGarden, connection_type="LOCAL")
LocalRecord(dbf) == dbf[CHOOSE nm \in DOMAIN dbf : dbf[nm].connection_type = "LOCAL"]

local_garden(dbf, reg, all_systems) ==
    [clean_garden_connection_params(LocalRecord(dbf)) EXCEPT
        !.systems = get_systems(reg, all_systems),
        !.namespaces = get_namespaces(reg)]

\* raises DoesNotExist unless GardenExists
GardenExists(dbf, garden_name) == garden_name = LocalName \/ garden_name \in DOMAIN dbf

get_garden(dbf, reg, garden_name) ==
    IF garden_name = LocalName
    THEN local_garden(dbf, reg, FALSE)
    ELSE clean_garden_connection_params(dbf[garden_name])

\* db.query(BrewtilsGarden, filter_params={"connection_type__ne": "LOCAL"})
QueryRemote(dbf) == SetToSeq({nm \in DOMAIN dbf : dbf[nm].connection_type # "LOCAL"})

CleanEach(dbf, names) ==
    [i \in 1..Len(names) |-> clean_garden_connection_params(dbf[names[i]])]

get_gardens(dbf, reg, include_local) ==
    CleanEach(dbf, QueryRemote(dbf))
        \o (IF include_local THEN <<local_garden(dbf, reg, FALSE)>> ELSE << >>)

-----------------------------------------------------------------------------
(* garden.py: writing gardens and handling events.  Every operation maps a  *)
(* database to [db, published, outcome]: the database afterwards, the events *)
(* published in order, and which path was taken.                             *)

Statuses == {"INITIALIZING", "RUNNING", "UNREACHABLE", "ERROR", "BLOCKED", "STOPPED",
             "NOT_CONFIGURED"}

LifecycleEvents == {"GARDEN_STARTED", "GARDEN_UPDATED", "GARDEN_STOPPED", "GARDEN_SYNC"}

\* the status list of the GARDEN_UNREACHABLE and GARDEN_ERROR branches
StickyStatuses == {"UNREACHABLE", "STOPPED", "BLOCKED", "ERROR"}

\* beer_garden.events: an event as publish / publish_event hand it to the bus
Event(name, garden, payload) == [name |-> name, garden |-> garden, payload |-> payload]

\* @publish_event(event_name): the wrapped function's result goes out as payload
publish_event(event_name, result) == Event(event_name, LocalName, result)

\* a write of one garden record with the event its decorator publishes
Written(dbf, garden, event_name) ==
    [db |-> [nm \in DOMAIN dbf \cup {garden.name} |->
                IF nm = garden.name THEN garden ELSE dbf[nm]],
     garden |-> garden,
     published |-> <<publish_event(event_name, garden)>>]

\* db.update(clean_garden_connection_params(garden)), then GARDEN_UPDATED
update_garden(dbf, garden) ==
    Written(dbf, clean_garden_connection_params(garden), "GARDEN_UPDATED")

\* db.create of the cleaned garden with a fresh heartbeat, then GARDEN_CREATED
\* creation that starts every record in INITIALIZING
MutCreateInitializing(dbf, garden, utcnow) ==
    Written(dbf, [clean_garden_connection_params(garden) EXCEPT !.heartbeat = utcnow,
                                                                !.status = "INITIALIZING"],
            "GARDEN_CREATED")

create_garden(dbf, garden, utcnow) ==
    Written(dbf, [clean_garden_connection_params(garden) EXCEPT !.heartbeat = utcnow],
            "GARDEN_CREATED")

\* update_garden_config writing the garden it was given in place of the stored one
MutConfigReplacesRecord(dbf, garden) ==
    update_garden(dbf, [garden EXCEPT !.status = "INITIALIZING"])

\* the stored record with the given connection configuration, back in INITIALIZING
update_garden_config(dbf, garden) ==
    update_garden(dbf, [dbf[garden.name] EXCEPT
                           !.connection_params = garden.connection_params,
                           !.connection_type = garden.connection_type,
                           !.status = "INITIALIZING"])

\* the status write that leaves status_info as stored
MutStatusKeepsHeartbeat(dbf, garden_name, new_status, utcnow) ==
    update_garden(dbf, [dbf[garden_name] EXCEPT !.status = new_status])

update_garden_status(dbf, garden_name, new_status, utcnow) ==
    update_garden(dbf, [dbf[garden_name] EXCEPT !.status = new_status,
                                                !.heartbeat = utcnow])

\* for system in event.payload.systems: system.local = False
NonLocal(systems) == [i \in 1..Len(systems) |-> [systems[i] EXCEPT !.local = FALSE]]

\* SYSTEM_UPDATED events tagged with the local garden instead of the origin
MutSystemEventsLocalTag(origin, garden) ==
    [i \in 1..Len(garden.systems) |->
        Event("SYSTEM_UPDATED", LocalName, garden.systems[i])]

\* one SYSTEM_UPDATED event per system of the garden, tagged with the origin
SystemEvents(origin, garden) ==
    [i \in 1..Len(garden.systems) |-> Event("SYSTEM_UPDATED", origin, garden.systems[i])]

Unchanged(dbf, outcome) == [db |-> dbf, published |-> << >>, outcome |-> outcome]

Outcome(r, more, outcome) ==
    [db |-> r.db, published |-> r.published \o more, outcome |-> outcome]

\* the write of the lifecycle branch, then the SYSTEM_UPDATED events
Reported(r, origin, outcome) == Outcome(r, SystemEvents(origin, r.garden), outcome)

\* the lifecycle branch keeping a stored sticky status
MutLifecycleSticky(dbf, reg, utcnow, event) ==
    IF ~GardenExists(dbf, event.payload.name)
    THEN Reported(create_garden(dbf,
                      [event.payload EXCEPT !.systems = NonLocal(event.payload.systems),
                                            !.connection_type = "NONE",
                                            !.connection_params = EmptyCp],
                      utcnow),
                  event.garden, "created")
    ELSE Reported(update_garden(dbf,
                      [get_garden(dbf, reg, event.payload.name) EXCEPT
                          !.status = IF @ \in StickyStatuses THEN @
                                     ELSE event.payload.status,
                          !.heartbeat = event.payload.heartbeat,
                          !.namespaces = event.payload.namespaces,
                          !.systems = NonLocal(event.payload.systems)]),
                  event.garden, "updated")

\* the lifecycle branch dropping a report older than the stored heartbeat
MutLifecycleNewestWins(dbf, reg, utcnow, event) ==
    IF ~GardenExists(dbf, event.payload.name)
    THEN Reported(create_garden(dbf,
                      [event.payload EXCEPT !.systems = NonLocal(event.payload.systems),
                                            !.connection_type = "NONE",
                                            !.connection_params = EmptyCp],
                      utcnow),
                  event.garden, "created")
    ELSE IF event.payload.heartbeat < get_garden(dbf, reg, event.payload.name).heartbeat
    THEN Reported(update_garden(dbf, get_garden(dbf, reg, event.payload.name)),
                  event.garden, "updated")
    ELSE Reported(update_garden(dbf,
                      [get_garden(dbf, reg, event.payload.name) EXCEPT
                          !.status = event.payload.status,
                          !.heartbeat = event.payload.heartbeat,
                          !.namespaces = event.payload.namespaces,
                          !.systems = NonLocal(event.payload.systems)]),
                  event.garden, "updated")

\* the lifecycle branch copying the payload's connection configuration as well
MutLifecycleTrustsPayload(dbf, reg, utcnow, event) ==
    IF ~GardenExists(dbf, event.payload.name)
    THEN Reported(create_garden(dbf,
                      [event.payload EXCEPT !.systems = NonLocal(event.payload.systems)],
                      utcnow),
                  event.garden, "created")
    ELSE Reported(update_garden(dbf,
                      [event.payload EXCEPT !.systems = NonLocal(event.payload.systems)]),
                  event.garden, "updated")

\* the lifecycle branch whose update leaves status_info as stored
MutLifecycleKeepsStatusInfo(dbf, reg, utcnow, event) ==
    IF ~GardenExists(dbf, event.payload.name)
    THEN Reported(create_garden(dbf,
                      [event.payload EXCEPT !.systems = NonLocal(event.payload.systems),
                                            !.connection_type = "NONE",
                                            !.connection_params = EmptyCp],
                      utcnow),
                  event.garden, "created")
    ELSE Reported(update_garden(dbf,
                      [get_garden(dbf, reg, event.payload.name) EXCEPT
                          !.status = event.payload.status,
                          !.namespaces = event.payload.namespaces,
                          !.systems = NonLocal(event.payload.systems)]),
                  event.garden, "updated")

\* the lifecycle branch for a direct child reporting on itself
HandleLifecycle(dbf, reg, utcnow, event) ==
    IF ~GardenExists(dbf, event.payload.name)
    THEN Reported(create_garden(dbf,
                      [event.payload EXCEPT !.systems = NonLocal(event.payload.systems),
                                            !.connection_type = "NONE",
                                            !.connection_params = EmptyCp],
                      utcnow),
                  event.garden, "created")
    ELSE Reported(update_garden(dbf,
                      [get_garden(dbf, reg, event.payload.name) EXCEPT
                          !.status = event.payload.status,
                          !.heartbeat = event.payload.heartbeat,
                          !.namespaces = event.payload.namespaces,
                          !.systems = NonLocal(event.payload.systems)]),
                  event.garden, "updated")

\* the distress branches guarded only against repeating the same status
MutDistressNotSticky(dbf, reg, utcnow, event, new_status) ==
    IF ~GardenExists(dbf, event.payload.target_garden_name)
    THEN Unchanged(dbf, "raised")
    ELSE IF get_garden(dbf, reg, event.payload.target_garden_name).status # new_status
    THEN Outcome(update_garden_status(dbf, event.payload.target_garden_name,
                                      new_status, utcnow),
                 << >>, "status_set")
    ELSE Unchanged(dbf, "status_kept")

\* the GARDEN_UNREACHABLE / GARDEN_ERROR branches
HandleDistress(dbf, reg, utcnow, event, new_status) ==
    IF ~GardenExists(dbf, event.payload.target_garden_name)
    THEN Unchanged(dbf, "raised")
    ELSE IF get_garden(dbf, reg, event.payload.target_garden_name).status
               \notin StickyStatuses
    THEN Outcome(update_garden_status(dbf, event.payload.target_garden_name,
                                      new_status, utcnow),
                 << >>, "status_set")
    ELSE Unchanged(dbf, "status_kept")

\* the GARDEN_NOT_CONFIGURED branch without its guard
MutNotConfiguredUnguarded(dbf, reg, utcnow, event) ==
    IF ~GardenExists(dbf, event.payload.target_garden_name)
    THEN Unchanged(dbf, "raised")
    ELSE Outcome(update_garden_status(dbf, event.payload.target_garden_name,
                                      "NOT_CONFIGURED", utcnow),
                 << >>, "status_set")

\* the GARDEN_NOT_CONFIGURED branch
HandleNotConfigured(dbf, reg, utcnow, event) ==
    IF ~GardenExists(dbf, event.payload.target_garden_name)
    THEN Unchanged(dbf, "raised")
    ELSE IF get_garden(dbf, reg, event.payload.target_garden_name).status = "NOT_CONFIGURED"
    THEN Outcome(update_garden_status(dbf, event.payload.target_garden_name,
                                      "NOT_CONFIGURED", utcnow),
                 << >>, "status_set")
    ELSE Unchanged(dbf, "status_kept")

\* handle_event taking every event with a lifecycle name as a child's report
MutHandleEventOwnUpdates(dbf, reg, utcnow, event) ==
    IF event.name \in LifecycleEvents
    THEN HandleLifecycle(dbf, reg, utcnow, event)
    ELSE IF event.garden # LocalName
    THEN Unchanged(dbf, "ignored")
    ELSE IF event.name = "GARDEN_UNREACHABLE"
    THEN HandleDistress(dbf, reg, utcnow, event, "UNREACHABLE")
    ELSE IF event.name = "GARDEN_ERROR"
    THEN HandleDistress(dbf, reg, utcnow, event, "ERROR")
    ELSE IF event.name = "GARDEN_NOT_CONFIGURED"
    THEN HandleNotConfigured(dbf, reg, utcnow, event)
    ELSE Unchanged(dbf, "ignored")

\* handle_event applying the guarded transitions whatever the event's origin
MutHandleEventDistressAnyOrigin(dbf, reg, utcnow, event) ==
    IF event.name \in LifecycleEvents
    THEN IF event.garden # LocalName /\ event.payload.name = event.garden
         THEN HandleLifecycle(dbf, reg, utcnow, event)
         ELSE Unchanged(dbf, "ignored")
    ELSE IF event.name = "GARDEN_UNREACHABLE"
    THEN HandleDistress(dbf, reg, utcnow, event, "UNREACHABLE")
    ELSE IF event.name = "GARDEN_ERROR"
    THEN HandleDistress(dbf, reg, utcnow, event, "ERROR")
    ELSE IF event.name = "GARDEN_NOT_CONFIGURED"
    THEN HandleNotConfigured(dbf, reg, utcnow, event)
    ELSE Unchanged(dbf, "ignored")

\* handle_event without the check of the event's origin
MutHandleEventAnyOrigin(dbf, reg, utcnow, event) ==
    IF event.name \in LifecycleEvents
    THEN IF event.payload.name = event.garden
         THEN HandleLifecycle(dbf, reg, utcnow, event)
         ELSE Unchanged(dbf, "ignored")
    ELSE IF event.garden # LocalName
    THEN Unchanged(dbf, "ignored")
    ELSE IF event.name = "GARDEN_UNREACHABLE"
    THEN HandleDistress(dbf, reg, utcnow, event, "UNREACHABLE")
    ELSE IF event.name = "GARDEN_ERROR"
    THEN HandleDistress(dbf, reg, utcnow, event, "ERROR")
    ELSE IF event.name = "GARDEN_NOT_CONFIGURED"
    THEN HandleNotConfigured(dbf, reg, utcnow, event)
    ELSE Unchanged(dbf, "ignored")

\* handle_event handling a relayed report as if the reported garden had sent it
MutHandleEventRelayed(dbf, reg, utcnow, event) ==
    IF event.garden # LocalName
    THEN IF event.name \in LifecycleEvents
         THEN HandleLifecycle(dbf, reg, utcnow, event)
         ELSE Unchanged(dbf, "ignored")
    ELSE IF event.name = "GARDEN_UNREACHABLE"
    THEN HandleDistress(dbf, reg, utcnow, event, "UNREACHABLE")
    ELSE IF event.name = "GARDEN_ERROR"
    THEN HandleDistress(dbf, reg, utcnow, event, "ERROR")
    ELSE IF event.name = "GARDEN_NOT_CONFIGURED"
    THEN HandleNotConfigured(dbf, reg, utcnow, event)
    ELSE Unchanged(dbf, "ignored")

handle_event(dbf, reg, utcnow, event) ==
    IF event.garden # LocalName
    THEN IF event.name \in LifecycleEvents /\ event.payload.name = event.garden
         THEN HandleLifecycle(dbf, reg, utcnow, event)
         ELSE Unchanged(dbf, "ignored")
    ELSE IF event.name = "GARDEN_UNREACHABLE"
    THEN HandleDistress(dbf, reg, utcnow, event, "UNREACHABLE")
    ELSE IF event.name = "GARDEN_ERROR"
    THEN HandleDistress(dbf, reg, utcnow, event, "ERROR")
    ELSE IF event.name = "GARDEN_NOT_CONFIGURED"
    THEN HandleNotConfigured(dbf, reg, utcnow, event)
    ELSE Unchanged(dbf, "ignored")

-----------------------------------------------------------------------------
(* garden.py: removing gardens and mapping systems to gardens.  These          *)
(* operations map a database and a system registry to                          *)
(* [db, registry, published, outcome].                                         *)

\* beer_garden.systems.get_systems(filter_params={"namespace": namespace})
get_systems_in(reg, namespace) == SetToSeq({s \in reg : s.namespace = namespace})

\* beer_garden.systems.remove_system(system_id)
remove_system(reg, system_id) == {s \in reg : s.id # system_id}

\* for system in systems: remove_system(system.id)
RECURSIVE RemoveEach(_, _)
RemoveEach(reg, systems) ==
    IF systems = << >> THEN reg
    ELSE RemoveEach(remove_system(reg, Head(systems).id), Tail(systems))

\* db.delete(garden)
Deleted(dbf, garden_name) == [nm \in DOMAIN dbf \ {garden_name} |-> dbf[nm]]

Raised(dbf, reg, error) ==
    [db |-> dbf, registry |-> reg, published |-> << >>, outcome |-> error]

remove_garden(dbf, reg, garden_name) ==
    IF ~GardenExists(dbf, garden_name)
    THEN Raised(dbf, reg, "DoesNotExist")
    ELSE [db |-> Deleted(dbf, garden_name),
          registry |-> RemoveEach(reg, get_systems_in(reg, garden_name)),
          published |-> <<publish_event("GARDEN_REMOVED",
                                        get_garden(dbf, reg, garden_name))>>,
          outcome |-> "removed"]

\* str(system): the text form of a system, equal to no System object
Str(system) == [str |-> system]

Range(seq) == {seq[i] : i \in 1..Len(seq)}

AppendNew(seq, x) == IF x \in Range(seq) THEN seq ELSE Append(seq, x)

Mapped(r, reg) ==
    [db |-> r.db, registry |-> reg, published |-> r.published, outcome |-> "added"]

\* the namespace and the text form appended where missing, then update_garden
AddedTo(dbf, reg, garden, system) ==
    Mapped(update_garden(dbf,
               [garden EXCEPT !.namespaces = AppendNew(@, system.namespace),
                              !.systems = AppendNew(@, Str(system))]),
           reg)

\* mapping a system without translating the repository's error
MutAddSystemRawError(dbf, reg, system, garden_name) ==
    IF ~GardenExists(dbf, garden_name)
    THEN Raised(dbf, reg, "DoesNotExist")
    ELSE AddedTo(dbf, reg, get_garden(dbf, reg, garden_name), system)

garden_add_system(dbf, reg, system, garden_name) ==
    IF ~GardenExists(dbf, garden_name)
    THEN Raised(dbf, reg, "PluginError")
    ELSE AddedTo(dbf, reg, get_garden(dbf, reg, garden_name), system)

-----------------------------------------------------------------------------
(* garden.py: synchronisation.  garden_sync maps a database and a registry to *)
(* [published, routed]: the events published and the operations handed to     *)
(* beer_garden.router.route, in order.                                        *)

Operation(operation_type, target_garden_name, sync_target) ==
    [operation_type |-> operation_type, target_garden_name |-> target_garden_name,
     kwargs |-> [sync_target |-> sync_target]]

\* the local garden with the local systems only
MutPublishLocalSystems(dbf, reg, status) ==
    publish_event("GARDEN_SYNC",
                  [local_garden(dbf, reg, FALSE) EXCEPT !.connection_type = "NONE",
                                                        !.status = status])

publish_garden(dbf, reg, status) ==
    publish_event("GARDEN_SYNC",
                  [local_garden(dbf, reg, TRUE) EXCEPT !.connection_type = "NONE",
                                                       !.status = status])

\* for garden in gardens: route(BrewtilsOperation(...))
RouteEach(gardens) ==
    [i \in 1..Len(gardens) |->
        Operation("GARDEN_SYNC", gardens[i].name, StrV(gardens[i].name))]

\* the fan-out over get_gardens() with its default include_local=True
MutSyncIncludesLocal(dbf, reg, sync_target) ==
    IF Truthy(sync_target)
    THEN [published |-> <<publish_garden(dbf, reg, "RUNNING")>>, routed |-> << >>]
    ELSE [published |-> << >>, routed |-> RouteEach(get_gardens(dbf, reg, TRUE))]

\* a targeted garden that publishes itself and forwards to its own children
MutSyncForwards(dbf, reg, sync_target) ==
    [published |-> IF Truthy(sync_target)
                   THEN <<publish_garden(dbf, reg, "RUNNING")>> ELSE << >>,
     routed |-> RouteEach(get_gardens(dbf, reg, FALSE))]

\* the fan-out whose operations carry no sync_target
MutSyncNoTarget(dbf, reg, sync_target) ==
    IF Truthy(sync_target)
    THEN [published |-> <<publish_garden(dbf, reg, "RUNNING")>>, routed |-> << >>]
    ELSE [published |-> << >>,
          routed |-> [i \in 1..Len(get_gardens(dbf, reg, FALSE)) |->
                         Operation("GARDEN_SYNC", get_gardens(dbf, reg, FALSE)[i].name,
                                   NoneV)]]

garden_sync(dbf, reg, sync_target) ==
    IF Truthy(sync_target)
    THEN [published |-> <<publish_garden(dbf, reg, "RUNNING")>>, routed |-> << >>]
    ELSE [published |-> << >>, routed |-> RouteEach(get_gardens(dbf, reg, FALSE))]

-----------------------------------------------------------------------------
(* Stored connection parameters: the fixtures of test/garden_connection_test.py *)
(* and every dictionary that differs from them in a bounded number of keys.     *)

MaxDeviations == 2

RemoteName == "childgarden"

good_http_params ==
    [f \in {"host", "port", "url_prefix", "ca_verify", "ssl"} |->
        CASE f = "host" -> StrV("gardenhost")
          [] f = "port" -> IntV(2337)
          [] f = "url_prefix" -> StrV("/")
          [] OTHER -> BoolV(FALSE)]

good_stomp_params ==
    [f \in {"host", "port", "ssl", "ssl.use_ssl"} |->
        CASE f = "host" -> StrV("gardenhost")
          [] f = "port" -> IntV(10119)
          [] f = "ssl" -> DictV
          [] OTHER -> BoolV(FALSE)]

\* per key, the other values tried (MissingV: the key is removed)
HttpAlt(key) ==
    CASE key = "host" -> {MissingV, IntV(5)}
      [] key = "port" -> {MissingV, IntV(0), IntV(1), IntV(65534), IntV(65535),
                          StrV("2337")}
      [] key = "url_prefix" -> {MissingV}
      [] key = "ca_verify" -> {MissingV, StrV("true")}
      [] key = "ssl" -> {StrV("maybe")}
      [] key = "ca_cert" -> {NoneV, IntV(1)}
      [] OTHER -> {StrV("x")}

HttpKeys == {"host", "port", "url_prefix", "ca_verify", "ssl", "ca_cert", "unknown"}

StompAlt(key) ==
    CASE key = "host" -> {MissingV, IntV(5)}
      [] key = "port" -> {MissingV, IntV(65535), StrV("10119")}
      [] key = "ssl" -> {MissingV, StrV("yes")}
      [] key = "ssl.use_ssl" -> {MissingV, StrV("true")}
      [] key = "headers" -> {ListV(1, "ok"), ListV(1, "bad")}
      [] key = "username" -> {NoneV}
      [] OTHER -> {StrV("x")}

StompKeys == {"host", "port", "ssl", "ssl.use_ssl", "ssl.extra", "headers", "username",
              "unknown"}

\* base with the keys of g set to g's values
Deviate(base, g) ==
    [x \in (DOMAIN base \cup DOMAIN g) \ {y \in DOMAIN g : g[y] = MissingV} |->
        IF x \in DOMAIN g THEN g[x] ELSE base[x]]

\* the entries of the "ssl" dictionary exist only while "ssl" is a dictionary
WellFormed(d) ==
    IF Get(d, "ssl").k = "dict" THEN d ELSE [x \in DOMAIN d \ StompSslKeys |-> d[x]]

HttpDeviations(n) ==
    UNION {{Deviate(good_http_params, g) :
              g \in {h \in [D -> UNION {HttpAlt(key) : key \in D}] :
                        \A key \in D : h[key] \in HttpAlt(key)}} :
           D \in {S \in SUBSET HttpKeys : Cardinality(S) = n}}

StompDeviations(n) ==
    UNION {{WellFormed(Deviate(good_stomp_params, g)) :
              g \in {h \in [D -> UNION {StompAlt(key) : key \in D}] :
                        \A key \in D : h[key] \in StompAlt(key)}} :
           D \in {S \in SUBSET StompKeys : Cardinality(S) = n}}

\* a choice for one key of connection_params: the key is absent, or holds v
Absent == [present |-> FALSE, v |-> NoParams]
Present(v) == [present |-> TRUE, v |-> v]

ConnParams(h, s) ==
    [x \in {y \in {"http", "stomp"} :
              (y = "http" /\ h.present) \/ (y = "stomp" /\ s.present)} |->
        IF x = "http" THEN h.v ELSE s.v]

HttpChoices(n) ==
    IF n = 0
    THEN {Absent, Present(NoParams), Present(Params(EmptyDict)),
          Present(Params(good_http_params))}
    ELSE {Present(Params(d)) : d \in HttpDeviations(n)}

StompChoices(n) ==
    IF n = 0
    THEN {Absent, Present(NoParams), Present(Params(EmptyDict)),
          Present(Params(good_stomp_params))}
    ELSE {Present(Params(d)) : d \in StompDeviations(n)}

StoredConnParams ==
    UNION {{ConnParams(h, s) : h \in HttpChoices(c[1]), s \in StompChoices(c[2])} :
           c \in {x \in (0..MaxDeviations) \X (0..MaxDeviations) :
                    x[1] + x[2] <= MaxDeviations}}

-----------------------------------------------------------------------------
(* SpecClean: a database holding the local garden and one remote garden with *)
(* arbitrary stored connection parameters, read through get_garden and       *)
(* get_gardens; what was returned is then reconciled once more.              *)

Garden(name, connection_type, connection_params, status) ==
    [name |-> name, connection_type |-> connection_type,
     connection_params |-> connection_params, status |-> status, heartbeat |-> 0,
     namespaces |-> <<>>, systems |-> <<>>]

NoRegistry == {}

\* what a LOCAL record may hold in storage
LocalStoredParams ==
    {EmptyCp,
     ConnParams(Present(Params(good_http_params)), Present(Params(EmptyDict)))}

ServiceIdle ==
    /\ db = << >> /\ registry = {} /\ now = 0 /\ published = << >> /\ routed = << >>
    /\ last = << >>

TreeIdle ==
    /\ inflight = {} /\ received = << >> /\ snapshots = << >> /\ started = FALSE
    /\ federation = << >> /\ request = NoneV

InitClean ==
    /\ \E ct \in {"HTTP", "STOMP", "NONE"}, cp \in StoredConnParams, lp \in LocalStoredParams :
          stored = [nm \in {LocalName, RemoteName} |->
                       IF nm = LocalName
                       THEN Garden(LocalName, "LOCAL", lp, "RUNNING")
                       ELSE Garden(RemoteName, ct, cp, "RUNNING")]
    /\ returned = << >>
    /\ recleaned = << >>
    /\ notes = << >>
    /\ phase = "stored"
    /\ ServiceIdle
    /\ TreeIdle

ReadGarden ==
    /\ phase = "stored"
    /\ \E garden_name \in DOMAIN stored :
          returned' = <<get_garden(stored, NoRegistry, garden_name)>>
    /\ notes' = << >>
    /\ phase' = "read"
    /\ UNCHANGED <<stored, recleaned, svcVars, treeVars>>

ReadGardens ==
    /\ phase = "stored"
    /\ \E include_local \in BOOLEAN :
          returned' = get_gardens(stored, NoRegistry, include_local)
    /\ notes' = << >>
    /\ phase' = "read"
    /\ UNCHANGED <<stored, recleaned, svcVars, treeVars>>

\* clean_garden_connection_params applied to its own output
Reclean ==
    /\ phase = "read"
    /\ recleaned' = [i \in 1..Len(returned) |-> clean_garden_connection_params(returned[i])]
    /\ notes' = [i \in 1..Len(returned) |-> CleanNotes(returned[i])]
    /\ phase' = "again"
    /\ UNCHANGED <<stored, returned, svcVars, treeVars>>

NextClean == ReadGarden \/ ReadGardens \/ Reclean

SpecClean == InitClean /\ [][NextClean]_vars

-----------------------------------------------------------------------------
(* SpecValidate: one parameter dictionary handed to the validation of its      *)
(* schema.  Here stored is [schema, d] and returned the load's [valid, data].  *)

\* integer ports around the two ends of the range
PortSamples == {-1, 0, 1, 2, 2337, 10119, PortHigh - 2, PortHigh - 1, PortHigh,
                PortHigh + 1}

HttpInputs ==
    UNION {HttpDeviations(n) : n \in 0..MaxDeviations}
        \cup {Put(good_http_params, "port", IntV(p)) : p \in PortSamples}

StompInputs ==
    UNION {StompDeviations(n) : n \in 0..MaxDeviations}
        \cup {Put(good_stomp_params, "port", IntV(p)) : p \in PortSamples}

InitValidate ==
    /\ \/ \E d \in HttpInputs : stored = [schema |-> "http", d |-> d]
       \/ \E d \in StompInputs : stored = [schema |-> "stomp", d |-> d]
    /\ returned = << >>
    /\ recleaned = << >>
    /\ notes = << >>
    /\ phase = "stored"
    /\ ServiceIdle
    /\ TreeIdle

ValidateHttp ==
    /\ phase = "stored"
    /\ stored.schema = "http"
    /\ returned' = <<_validate_http_connection_params(stored.d)>>
    /\ phase' = "validated"
    /\ UNCHANGED <<stored, recleaned, notes, svcVars, treeVars>>

ValidateStomp ==
    /\ phase = "stored"
    /\ stored.schema = "stomp"
    /\ returned' = <<_validate_stomp_connection_params(stored.d)>>
    /\ phase' = "validated"
    /\ UNCHANGED <<stored, recleaned, notes, svcVars, treeVars>>

NextValidate == ValidateHttp \/ ValidateStomp

SpecValidate == InitValidate /\ [][NextValidate]_vars

-----------------------------------------------------------------------------
(* SpecRaw: one garden record as the database may hold it, its connection      *)
(* parameters of any shape, handed to clean_garden_connection_params once.     *)

RawTypes == {"HTTP", "STOMP", "NONE", "LOCAL"}

\* the stored connection parameters, and those with a value that is no dictionary
RawConnParams ==
    StoredConnParams
        \cup {ConnParams(Present(NotMapping), s) :
                 s \in StompChoices(0) \cup {Present(NotMapping)}}
        \cup {ConnParams(h, Present(NotMapping)) : h \in HttpChoices(0)}

InitRaw ==
    /\ \E ct \in RawTypes, cp \in RawConnParams :
          stored = [nm \in {RemoteName} |-> Garden(RemoteName, ct, cp, "RUNNING")]
    /\ returned = << >>
    /\ recleaned = << >>
    /\ notes = << >>
    /\ phase = "stored"
    /\ ServiceIdle
    /\ TreeIdle

\* clean_garden_connection_params returns the garden and logs its notes
CleanStored ==
    /\ phase = "stored"
    /\ ~CleanRaises(stored[RemoteName])
    /\ returned' = <<clean_garden_connection_params(stored[RemoteName])>>
    /\ notes' = <<CleanNotes(stored[RemoteName])>>
    /\ phase' = "read"
    /\ UNCHANGED <<stored, recleaned, svcVars, treeVars>>

\* clean_garden_connection_params ends in a TypeError
CleanRaised ==
    /\ phase = "stored"
    /\ CleanRaises(stored[RemoteName])
    /\ phase' = "raised"
    /\ UNCHANGED <<stored, returned, recleaned, notes, svcVars, treeVars>>

NextRaw == CleanStored \/ CleanRaised

SpecRaw == InitRaw /\ [][NextRaw]_vars

-----------------------------------------------------------------------------
(* Spec: the garden service of the local garden.  Its database holds the      *)
(* LOCAL record and at most one child; events arrive from the bus (and may    *)
(* arrive again), status and configuration updates and creations from the    *)
(* API, and each is handled to completion before the next.                    *)

MaxClock == 1
MaxSystems == 2

GrandchildName == "grandchild"

\* the first k systems a child reports
ReportedSystems(k) ==
    [i \in 1..k |-> [id |-> i,
                     namespace |-> IF i = 1 THEN "ns1" ELSE "ns2",
                     local |-> (i % 2 = 1)]]

ReportedNamespaces(k) ==
    IF k = 0 THEN << >> ELSE IF k = 1 THEN <<"ns1">> ELSE <<"ns1", "ns2">>

\* (connection_type, connection_params) a stored child may hold
StoredConfigs ==
    {<<"HTTP", ConnParams(Present(Params(good_http_params)), Absent)>>,
     <<"STOMP", ConnParams(Absent, Present(Params(good_stomp_params)))>>,
     <<"STOMP", ConnParams(Present(Params(Pop(good_http_params, "host"))),
                           Present(Params(Pop(good_stomp_params, "port"))))>>}

\* (connection_type, connection_params) a child reports about itself
ReportedConfigs ==
    {<<"NONE", EmptyCp>>,
     <<"HTTP", ConnParams(Present(Params(good_http_params)),
                          Present(Params(good_stomp_params)))>>}

PayloadStatuses == {"RUNNING", "STOPPED"}

\* the status of a garden handed to create_garden
CreateStatuses == {"INITIALIZING", "RUNNING"}

Snapshot(name, status, heartbeat, k, config) ==
    [name |-> name, connection_type |-> config[1], connection_params |-> config[2],
     status |-> status, heartbeat |-> heartbeat,
     namespaces |-> ReportedNamespaces(k), systems |-> ReportedSystems(k)]

Target(garden_name) == [target_garden_name |-> garden_name]

\* the events the bus may deliver
InboundEvents ==
    {Event(name, RemoteName, Snapshot(RemoteName, status, heartbeat, k, config)) :
        name \in LifecycleEvents, status \in PayloadStatuses, heartbeat \in 0..MaxClock,
        k \in 0..MaxSystems, config \in ReportedConfigs}
    \cup {Event(name, origin, Snapshot(about, "RUNNING", 0, 1, <<"NONE", EmptyCp>>)) :
        name \in LifecycleEvents,
        origin \in {LocalName, RemoteName}, about \in {RemoteName, GrandchildName}}
    \cup {Event(name, LocalName, Snapshot(LocalName, "RUNNING", 0, 1, <<"NONE", EmptyCp>>)) :
        name \in LifecycleEvents}
    \cup {Event(name, GrandchildName,
                 Snapshot(RemoteName, "STOPPED", 1, 1, <<"NONE", EmptyCp>>)) :
        name \in LifecycleEvents}
    \cup {Event(name, origin, Target(about)) :
        name \in {"GARDEN_UNREACHABLE", "GARDEN_ERROR", "GARDEN_NOT_CONFIGURED"},
        origin \in {LocalName, RemoteName}, about \in {RemoteName, GrandchildName}}

Idle == [op |-> "none", event |-> Event("none", "none", Target("none")), done |-> TRUE,
         before |-> << >>, outcome |-> "none"]

Init ==
    /\ \E children \in SUBSET {RemoteName}, config \in StoredConfigs, status \in Statuses :
          db = [nm \in {LocalName} \cup children |->
                   IF nm = LocalName
                   THEN Garden(LocalName, "LOCAL", EmptyCp, "RUNNING")
                   ELSE Garden(nm, config[1], config[2], status)]
    /\ registry = {}
    /\ now = 0
    /\ published = << >>
    /\ routed = << >>
    /\ last = Idle
    /\ stored = << >> /\ returned = << >> /\ recleaned = << >> /\ notes = << >>
    /\ phase = "none"
    /\ TreeIdle

\* time passes between operations
Tick ==
    /\ last.op = "none"
    /\ now < MaxClock
    /\ now' = now + 1
    /\ UNCHANGED <<db, registry, published, routed, last, cleanVars, treeVars>>

\* the bus hands an event to handle_event
Receive ==
    /\ last.op = "none"
    /\ \E event \in InboundEvents :
          last' = [op |-> "handle_event", event |-> event, done |-> FALSE,
                   before |-> db, outcome |-> "pending"]
    /\ UNCHANGED <<db, registry, now, published, routed, cleanVars, treeVars>>

HandleEvent ==
    /\ ~last.done
    /\ last.op = "handle_event"
    /\ \E r \in {handle_event(db, registry, now, last.event)} :
          /\ db' = r.db
          /\ published' = r.published
          /\ last' = [last EXCEPT !.done = TRUE, !.outcome = r.outcome]
    /\ UNCHANGED <<registry, now, routed, cleanVars, treeVars>>

\* the bus hands over once more the lifecycle event that was just handled
Redeliver ==
    /\ last.done
    /\ last.op \in {"handle_event", "handle_event_again"}
    /\ last.outcome \in {"created", "updated"}
    /\ last' = [last EXCEPT !.op = "handle_event_again", !.done = FALSE,
                            !.before = db, !.outcome = "pending"]
    /\ published' = << >>
    /\ UNCHANGED <<db, registry, now, routed, cleanVars, treeVars>>

HandleAgain ==
    /\ ~last.done
    /\ last.op = "handle_event_again"
    /\ \E r \in {handle_event(db, registry, now, last.event)} :
          /\ db' = r.db
          /\ published' = r.published
          /\ last' = [last EXCEPT !.done = TRUE, !.outcome = r.outcome]
    /\ UNCHANGED <<registry, now, routed, cleanVars, treeVars>>

\* the API asks for update_garden_status(garden_name, new_status)
RequestStatus ==
    /\ last.op = "none"
    /\ \E garden_name \in DOMAIN db \ {LocalName}, new_status \in Statuses :
          last' = [op |-> "update_garden_status",
                   event |-> Event(new_status, garden_name, Target(garden_name)),
                   done |-> FALSE, before |-> db, outcome |-> "pending"]
    /\ UNCHANGED <<db, registry, now, published, routed, cleanVars, treeVars>>

UpdateGardenStatus ==
    /\ ~last.done
    /\ last.op = "update_garden_status"
    /\ \E r \in {update_garden_status(db, last.event.garden, last.event.name, now)} :
          /\ db' = r.db
          /\ published' = r.published
          /\ last' = [last EXCEPT !.done = TRUE, !.outcome = "status_set"]
    /\ UNCHANGED <<registry, now, routed, cleanVars, treeVars>>

\* the API asks for update_garden_config(garden)
RequestConfig ==
    /\ last.op = "none"
    /\ \E garden_name \in DOMAIN db \ {LocalName}, config \in StoredConfigs :
          last' = [op |-> "update_garden_config",
                   event |-> Event("update_garden_config", garden_name,
                                   Garden(garden_name, config[1], config[2],
                                          db[garden_name].status)),
                   done |-> FALSE, before |-> db, outcome |-> "pending"]
    /\ UNCHANGED <<db, registry, now, published, routed, cleanVars, treeVars>>

UpdateGardenConfig ==
    /\ ~last.done
    /\ last.op = "update_garden_config"
    /\ \E r \in {update_garden_config(db, last.event.payload)} :
          /\ db' = r.db
          /\ published' = r.published
          /\ last' = [last EXCEPT !.done = TRUE, !.outcome = "config_set"]
    /\ UNCHANGED <<registry, now, routed, cleanVars, treeVars>>

\* the API asks for create_garden(garden) with a garden that has no record yet
RequestCreate ==
    /\ last.op = "none"
    /\ \E garden_name \in {RemoteName} \ DOMAIN db, config \in StoredConfigs,
          status \in CreateStatuses :
          last' = [op |-> "create_garden",
                   event |-> Event("create_garden", garden_name,
                                   Garden(garden_name, config[1], config[2], status)),
                   done |-> FALSE, before |-> db, outcome |-> "pending"]
    /\ UNCHANGED <<db, registry, now, published, routed, cleanVars, treeVars>>

CreateGarden ==
    /\ ~last.done
    /\ last.op = "create_garden"
    /\ \E r \in {create_garden(db, last.event.payload, now)} :
          /\ db' = r.db
          /\ published' = r.published
          /\ last' = [last EXCEPT !.done = TRUE, !.outcome = "created"]
    /\ UNCHANGED <<registry, now, routed, cleanVars, treeVars>>

\* the operation returns to its caller
Return ==
    /\ last.done
    /\ last.op # "none"
    /\ last' = Idle
    /\ published' = << >>
    /\ UNCHANGED <<db, registry, now, routed, cleanVars, treeVars>>

Next ==
    \/ Tick
    \/ Receive \/ HandleEvent
    \/ Redeliver \/ HandleAgain
    \/ RequestStatus \/ UpdateGardenStatus
    \/ RequestConfig \/ UpdateGardenConfig
    \/ RequestCreate \/ CreateGarden
    \/ Return

Spec == Init /\ [][Next]_vars

-----------------------------------------------------------------------------
(* SpecRace: several invocations about one child run at the same time, each    *)
(* database call a step of its own.  Here inflight maps every invocation to    *)
(* [call, pc, read, overwrote, outcome]: what was called, where it stands,     *)
(* the record its last read returned, the status its write replaced and how    *)
(* it ended.                                                                   *)

MaxInvocations == 2

Invocations == 1..MaxInvocations

\* the calls that may run at the same time
RaceCalls ==
    {[op |-> "handle_event",
      event |-> Event("GARDEN_UNREACHABLE", LocalName, Target(RemoteName))],
     [op |-> "handle_event",
      event |-> Event("GARDEN_STOPPED", RemoteName,
                      Snapshot(RemoteName, "STOPPED", 1, 1, <<"NONE", EmptyCp>>))],
     [op |-> "handle_event",
      event |-> Event("GARDEN_SYNC", RemoteName,
                      Snapshot(RemoteName, "RUNNING", 0, 2, <<"NONE", EmptyCp>>))],
     [op |-> "update_garden_status",
      event |-> Event("BLOCKED", RemoteName, Target(RemoteName))]}

NoRecord == Garden("none", "NONE", EmptyCp, "none")

Started(call) ==
    [call |-> call, pc |-> "start", read |-> NoRecord, overwrote |-> "none",
     outcome |-> "pending"]

IsLifecycle(inv) ==
    inv.call.op = "handle_event" /\ inv.call.event.name \in LifecycleEvents

IsDistress(inv) ==
    inv.call.op = "handle_event" /\ inv.call.event.name \in {"GARDEN_UNREACHABLE",
                                                             "GARDEN_ERROR"}

AboutName(inv) ==
    IF IsLifecycle(inv) THEN inv.call.event.payload.name
    ELSE inv.call.event.payload.target_garden_name

NewStatus(inv) ==
    IF inv.call.op = "update_garden_status" THEN inv.call.event.name
    ELSE IF inv.call.event.name = "GARDEN_UNREACHABLE" THEN "UNREACHABLE" ELSE "ERROR"

InitRace ==
    /\ \E children \in SUBSET {RemoteName}, status \in Statuses :
          db = [nm \in {LocalName} \cup children |->
                   IF nm = LocalName
                   THEN Garden(LocalName, "LOCAL", EmptyCp, "RUNNING")
                   ELSE Garden(nm, "HTTP",
                               ConnParams(Present(Params(good_http_params)), Absent),
                               status)]
    /\ inflight \in [Invocations -> {Started(call) : call \in RaceCalls}]
    /\ registry = {}
    /\ now = 0
    /\ published = << >>
    /\ routed = << >>
    /\ last = << >>
    /\ stored = << >> /\ returned = << >> /\ recleaned = << >> /\ notes = << >>
    /\ phase = "none"
    /\ received = << >> /\ snapshots = << >> /\ started = FALSE
    /\ federation = << >> /\ request = NoneV

raceFrame == <<registry, now, published, routed, last, cleanVars, received, snapshots,
               started, federation, request>>

\* handle_event calls get_garden for the garden the event is about
Lookup(i) ==
    /\ inflight[i].call.op = "handle_event"
    /\ inflight[i].pc = "start"
    /\ inflight' = [inflight EXCEPT ![i] =
          IF GardenExists(db, AboutName(inflight[i]))
          THEN [@ EXCEPT !.pc = "looked",
                         !.read = get_garden(db, registry, AboutName(inflight[i]))]
          ELSE IF IsLifecycle(inflight[i])
          THEN [@ EXCEPT !.pc = "missing"]
          ELSE [@ EXCEPT !.pc = "done", !.outcome = "DoesNotExist"]]
    /\ UNCHANGED <<db, raceFrame>>

\* the status read is one of the sticky ones: nothing is written
Skip(i) ==
    /\ IsDistress(inflight[i])
    /\ inflight[i].pc = "looked"
    /\ inflight[i].read.status \in StickyStatuses
    /\ inflight' = [inflight EXCEPT ![i] = [@ EXCEPT !.pc = "done",
                                                     !.outcome = "status_kept"]]
    /\ UNCHANGED <<db, raceFrame>>

\* update_garden_status reads the record it is going to write
Query(i) ==
    /\ \/ inflight[i].call.op = "update_garden_status" /\ inflight[i].pc = "start"
       \/ /\ IsDistress(inflight[i])
          /\ inflight[i].pc = "looked"
          /\ inflight[i].read.status \notin StickyStatuses
    /\ AboutName(inflight[i]) \in DOMAIN db
    /\ inflight' = [inflight EXCEPT ![i] = [@ EXCEPT !.pc = "queried",
                                                     !.read = db[AboutName(inflight[i])]]]
    /\ UNCHANGED <<db, raceFrame>>

\* update_garden_status writes the record it read, with the new status
Update(i) ==
    /\ inflight[i].pc = "queried"
    /\ AboutName(inflight[i]) \in DOMAIN db
    /\ db' = update_garden(db, [inflight[i].read EXCEPT
                                   !.status = NewStatus(inflight[i]),
                                   !.heartbeat = now]).db
    /\ inflight' = [inflight EXCEPT ![i] =
          [@ EXCEPT !.pc = "done", !.outcome = "status_set",
                    !.overwrote = db[AboutName(inflight[i])].status]]
    /\ UNCHANGED raceFrame

\* handle_event found no record and creates one; the repository keeps names unique
Create(i) ==
    /\ IsLifecycle(inflight[i])
    /\ inflight[i].pc = "missing"
    /\ IF AboutName(inflight[i]) \in DOMAIN db
       THEN /\ inflight' = [inflight EXCEPT ![i] =
                  [@ EXCEPT !.pc = "done", !.outcome = "NotUniqueError"]]
            /\ UNCHANGED db
       ELSE /\ db' = HandleLifecycle(db, registry, now, inflight[i].call.event).db
            /\ inflight' = [inflight EXCEPT ![i] =
                  [@ EXCEPT !.pc = "done", !.outcome = "created"]]
    /\ UNCHANGED raceFrame

\* handle_event found a record and writes it with the payload's state
UpdateExisting(i) ==
    /\ IsLifecycle(inflight[i])
    /\ inflight[i].pc = "looked"
    /\ AboutName(inflight[i]) \in DOMAIN db
    /\ db' = update_garden(db,
                 [inflight[i].read EXCEPT
                     !.status = inflight[i].call.event.payload.status,
                     !.heartbeat = inflight[i].call.event.payload.heartbeat,
                     !.namespaces = inflight[i].call.event.payload.namespaces,
                     !.systems = NonLocal(inflight[i].call.event.payload.systems)]).db
    /\ inflight' = [inflight EXCEPT ![i] =
          [@ EXCEPT !.pc = "done", !.outcome = "updated",
                    !.overwrote = db[AboutName(inflight[i])].status]]
    /\ UNCHANGED raceFrame

NextRace ==
    \E i \in Invocations :
        \/ Lookup(i) \/ Skip(i) \/ Query(i) \/ Update(i)
        \/ Create(i) \/ UpdateExisting(i)

SpecRace == InitRace /\ [][NextRace]_vars

-----------------------------------------------------------------------------
(* SpecAdmin: one garden with a child that has reported systems; the child is  *)
(* removed, or systems are mapped to gardens by name.                          *)

\* the systems the registry may hold when the child has reported k systems
KnownSystems(k) ==
    Range(NonLocal(ReportedSystems(k)))
        \cup {[id |-> MaxSystems + 1, namespace |-> RemoteName, local |-> FALSE]}

\* the systems garden_add_system may be handed
AddableSystems ==
    {[id |-> MaxSystems + 2, namespace |-> "ns1", local |-> FALSE],
     [id |-> MaxSystems + 3, namespace |-> "ns3", local |-> FALSE]}

\* the garden names the operations may be handed
AdminNames == {RemoteName, GrandchildName}

InitAdmin ==
    /\ \E k \in 0..MaxSystems, config \in StoredConfigs :
          /\ db = [nm \in {LocalName, RemoteName} |->
                      IF nm = LocalName
                      THEN Garden(LocalName, "LOCAL", EmptyCp, "RUNNING")
                      ELSE [Garden(nm, config[1], config[2], "RUNNING") EXCEPT
                               !.namespaces = ReportedNamespaces(k),
                               !.systems = NonLocal(ReportedSystems(k))]]
          /\ registry \in SUBSET KnownSystems(k)
    /\ now = 0
    /\ published = << >>
    /\ routed = << >>
    /\ last = Idle
    /\ stored = << >> /\ returned = << >> /\ recleaned = << >> /\ notes = << >>
    /\ phase = "none"
    /\ TreeIdle

\* the API asks for remove_garden(garden_name)
RequestRemove ==
    /\ last.op = "none"
    /\ \E garden_name \in AdminNames :
          last' = [op |-> "remove_garden",
                   event |-> Event("remove_garden", garden_name, Target(garden_name)),
                   done |-> FALSE, before |-> db, outcome |-> "pending"]
    /\ UNCHANGED <<db, registry, now, published, routed, cleanVars, treeVars>>

RemoveGarden ==
    /\ ~last.done
    /\ last.op = "remove_garden"
    /\ \E r \in {remove_garden(db, registry, last.event.garden)} :
          /\ db' = r.db
          /\ registry' = r.registry
          /\ published' = r.published
          /\ last' = [last EXCEPT !.done = TRUE, !.outcome = r.outcome]
    /\ UNCHANGED <<now, routed, cleanVars, treeVars>>

\* a system is to be mapped to the garden it came from
RequestAddSystem ==
    /\ last.op = "none"
    /\ \E garden_name \in AdminNames, system \in AddableSystems :
          last' = [op |-> "garden_add_system",
                   event |-> Event("garden_add_system", garden_name, system),
                   done |-> FALSE, before |-> db, outcome |-> "pending"]
    /\ UNCHANGED <<db, registry, now, published, routed, cleanVars, treeVars>>

GardenAddSystem ==
    /\ ~last.done
    /\ last.op = "garden_add_system"
    /\ \E r \in {garden_add_system(db, registry, last.event.payload, last.event.garden)} :
          /\ db' = r.db
          /\ registry' = r.registry
          /\ published' = r.published
          /\ last' = [last EXCEPT !.done = TRUE, !.outcome = r.outcome]
    /\ UNCHANGED <<now, routed, cleanVars, treeVars>>

NextAdmin ==
    \/ RequestRemove \/ RemoveGarden
    \/ RequestAddSystem \/ GardenAddSystem
    \/ Return

SpecAdmin == InitAdmin /\ [][NextAdmin]_vars

-----------------------------------------------------------------------------
(* SpecFeedback: the operations of Spec and SpecAdmin, with the bus handing    *)
(* the events an operation published back to this garden's handle_event.       *)

InitFeedback ==
    /\ \E config \in StoredConfigs :
          db = [nm \in {LocalName, RemoteName} |->
                   IF nm = LocalName
                   THEN Garden(LocalName, "LOCAL", EmptyCp, "RUNNING")
                   ELSE [Garden(nm, config[1], config[2], "RUNNING") EXCEPT
                            !.namespaces = ReportedNamespaces(1),
                            !.systems = NonLocal(ReportedSystems(1))]]
    /\ registry = KnownSystems(1)
    /\ now = 0
    /\ published = << >>
    /\ routed = << >>
    /\ last = Idle
    /\ stored = << >> /\ returned = << >> /\ recleaned = << >> /\ notes = << >>
    /\ phase = "none"
    /\ TreeIdle

\* the bus hands back one of the events the finished operation published
Feedback ==
    /\ last.done
    /\ last.op # "none"
    /\ \E i \in 1..Len(published) :
          last' = [op |-> "handle_event_fed", event |-> published[i], done |-> FALSE,
                   before |-> db, outcome |-> "pending"]
    /\ published' = << >>
    /\ UNCHANGED <<db, registry, now, routed, cleanVars, treeVars>>

HandleFeedback ==
    /\ ~last.done
    /\ last.op = "handle_event_fed"
    /\ \E r \in {handle_event(db, registry, now, last.event)} :
          /\ db' = r.db
          /\ published' = r.published
          /\ last' = [last EXCEPT !.done = TRUE, !.outcome = r.outcome]
    /\ UNCHANGED <<registry, now, routed, cleanVars, treeVars>>

\* the reports the child sends about itself
OwnReports ==
    {Event(name, RemoteName, Snapshot(RemoteName, "STOPPED", 0, k, <<"NONE", EmptyCp>>)) :
        name \in {"GARDEN_SYNC", "GARDEN_UPDATED"}, k \in 1..MaxSystems}

\* the bus hands a child's report to handle_event
ReceiveReport ==
    /\ last.op = "none"
    /\ \E event \in OwnReports :
          last' = [op |-> "handle_event", event |-> event, done |-> FALSE,
                   before |-> db, outcome |-> "pending"]
    /\ UNCHANGED <<db, registry, now, published, routed, cleanVars, treeVars>>

NextFeedback ==
    \/ ReceiveReport \/ HandleEvent
    \/ RequestStatus \/ UpdateGardenStatus
    \/ RequestConfig \/ UpdateGardenConfig
    \/ RequestCreate \/ CreateGarden
    \/ RequestRemove \/ RemoveGarden
    \/ RequestAddSystem \/ GardenAddSystem
    \/ Feedback \/ HandleFeedback
    \/ Return

SpecFeedback == InitFeedback /\ [][NextFeedback]_vars

-----------------------------------------------------------------------------
(* SpecTree: a tree of gardens.  Every garden holds its LOCAL record and one   *)
(* record per child; the root is asked to sync, and the router hands every    *)
(* routed operation to the garden it names, which runs garden_sync on it.     *)

MaxNodes == 4

GardenNames == <<LocalName, RemoteName, GrandchildName, "garden4", "garden5", "garden6">>

Root == 1

\* the parents of gardens 2..n: every garden hangs below an earlier one
Parents(n) == {f \in [2..n -> 1..n] : \A i \in 2..n : f[i] < i}

ChildrenOf(parent, i) == {j \in DOMAIN parent : parent[j] = i}

\* the database of garden i: its own LOCAL record and a record per child
NodeDb(parent, i, lp, config) ==
    [nm \in {GardenNames[j] : j \in {i} \cup ChildrenOf(parent, i)} |->
        IF nm = GardenNames[i]
        THEN Garden(nm, "LOCAL", lp, "RUNNING")
        ELSE Garden(nm, config[1], config[2], "RUNNING")]

SystemsOf(k) == {ReportedSystems(k)[i] : i \in 1..k}

\* what the process may pass as sync_target
RootTargets == {NoneV, StrV(""), StrV(LocalName)}

IdleSync == [op |-> "none", at |-> 0, sync_target |-> NoneV, done |-> TRUE]

InitTree ==
    /\ \E n \in 1..MaxNodes :
          \E parent \in Parents(n), lp \in LocalStoredParams, config \in StoredConfigs,
             k \in 0..MaxSystems :
                federation = [i \in 1..n |->
                                 [parent |-> IF i = Root THEN 0 ELSE parent[i],
                                  db |-> NodeDb(parent, i, lp, config),
                                  registry |-> SystemsOf(k)]]
    /\ inflight = {}
    /\ received = << >>
    /\ snapshots = << >>
    /\ started = FALSE
    /\ request = NoneV
    /\ last = IdleSync
    /\ published = << >>
    /\ routed = << >>
    /\ db = << >> /\ registry = {} /\ now = 0
    /\ stored = << >> /\ returned = << >> /\ recleaned = << >> /\ notes = << >>
    /\ phase = "none"

\* the root garden is asked to sync
RequestSync ==
    /\ ~started
    /\ \E sync_target \in RootTargets :
          /\ request' = sync_target
          /\ last' = [op |-> "garden_sync", at |-> Root, sync_target |-> sync_target,
                      done |-> FALSE]
    /\ started' = TRUE
    /\ UNCHANGED <<inflight, received, snapshots, federation, published, routed,
                   db, registry, now, cleanVars>>

\* the garden last.at runs garden_sync(sync_target)
GardenSync ==
    /\ ~last.done
    /\ last.op = "garden_sync"
    /\ \E r \in {garden_sync(federation[last.at].db, federation[last.at].registry,
                             last.sync_target)} :
          /\ published' = r.published
          /\ routed' = r.routed
          /\ inflight' = inflight \cup
                 {[from |-> last.at, n |-> i, op |-> r.routed[i]] :
                     i \in 1..Len(r.routed)}
          /\ snapshots' = snapshots \o
                 [i \in 1..Len(r.published) |->
                     [at |-> last.at, event |-> r.published[i], delivered |-> FALSE]]
    /\ last' = [last EXCEPT !.done = TRUE]
    /\ UNCHANGED <<received, started, federation, request, db, registry, now, cleanVars>>

\* the router hands a routed operation to the garden it names, which calls
\* garden_sync(**operation.kwargs)
Deliver ==
    /\ last.done
    /\ \E m \in inflight :
          \E at \in DOMAIN federation :
             /\ GardenNames[at] = m.op.target_garden_name
             /\ inflight' = inflight \ {m}
             /\ received' = Append(received, [at |-> at, op |-> m.op])
             /\ last' = [op |-> "garden_sync", at |-> at,
                         sync_target |-> m.op.kwargs.sync_target, done |-> FALSE]
    /\ UNCHANGED <<snapshots, started, federation, request, published, routed,
                   db, registry, now, cleanVars>>

NextTree == RequestSync \/ GardenSync \/ Deliver

SpecTree == InitTree /\ [][NextTree]_vars

\* the event as it leaves the garden that published it, carrying that garden's name
Stamped(snapshot) == [snapshot.event EXCEPT !.garden = GardenNames[snapshot.at]]

\* the bus hands a snapshot published by a child of the root to the root, which
\* runs handle_event on it
DeliverEvent ==
    \E j \in 1..Len(snapshots) :
        /\ ~snapshots[j].delivered
        /\ federation[snapshots[j].at].parent = Root
        /\ \E r \in {handle_event(federation[Root].db, federation[Root].registry, now,
                                   Stamped(snapshots[j]))} :
              federation' = [federation EXCEPT ![Root].db = r.db]
        /\ snapshots' = [snapshots EXCEPT ![j].delivered = TRUE]
        /\ UNCHANGED <<inflight, received, started, request, last, published, routed,
                       db, registry, now, cleanVars>>

NextSync == NextTree \/ DeliverEvent

\* the step that ends a call of garden_sync: within NextSync, a GardenSync step
SyncReturns ==
    /\ ~last.done
    /\ last.op = "garden_sync"
    /\ last' = [last EXCEPT !.done = TRUE]

\* the step that marks a snapshot delivered: within NextSync, a DeliverEvent step
EventDelivered ==
    \E j \in 1..Len(snapshots) :
        /\ ~snapshots[j].delivered
        /\ federation[snapshots[j].at].parent = Root
        /\ snapshots' = [snapshots EXCEPT ![j].delivered = TRUE]

\* every garden finishes the garden_sync it was handed, the router delivers every
\* routed operation, and the bus delivers every published event
SpecSync ==
    /\ InitTree
    /\ [][NextSync]_vars
    /\ WF_last(SyncReturns)
    /\ WF_vars(Deliver)
    /\ WF_snapshots(EventDelivered)

-----------------------------------------------------------------------------
(* Claims about reading and reconciling (SpecClean) *)

\* a value under a key of connection_params passes the key's schema
ValidUnder(cp, key) ==
    /\ ~cp[key].none
    /\ IF key = "http" THEN _validate_http_connection_params(cp[key].d).valid
       ELSE _validate_stomp_connection_params(cp[key].d).valid

\* the key is absent, None or fails its schema
Unusable(cp, key) == key \notin DOMAIN cp \/ ~ValidUnder(cp, key)

\* the value under the key is what its schema loads from it
Canonical(cp, key) ==
    /\ ValidUnder(cp, key)
    /\ cp[key].d = IF key = "http" THEN _validate_http_connection_params(cp[key].d).data
                   ELSE _validate_stomp_connection_params(cp[key].d).data

\* a remote garden whose type has its params and whose params are all canonical
Settled(garden) ==
    /\ \/ garden.connection_type = "HTTP" /\ "http" \in DOMAIN garden.connection_params
       \/ garden.connection_type = "STOMP" /\ "stomp" \in DOMAIN garden.connection_params
    /\ \A key \in DOMAIN garden.connection_params :
          Canonical(garden.connection_params, key)

ReturnedIndex == 1..Len(returned)

\* C1: every garden handed back by get_garden / get_gardens has connection_params
\* whose http key is absent or schema-valid and whose stomp key is absent or
\* schema-valid, whatever type and raw connection_params are stored.
C1_ReadThroughValid ==
    phase # "stored" =>
        \A i \in ReturnedIndex :
            \A key \in {"http", "stomp"} :
                key \in DOMAIN returned[i].connection_params =>
                    ValidUnder(returned[i].connection_params, key)

\* a remote garden stored with an invalid http value and an invalid stomp value was read
C1_Witness ==
    /\ phase = "read"
    /\ "http" \in DOMAIN stored[RemoteName].connection_params
    /\ "stomp" \in DOMAIN stored[RemoteName].connection_params
    /\ Unusable(stored[RemoteName].connection_params, "http")
    /\ Unusable(stored[RemoteName].connection_params, "stomp")
    /\ \E i \in ReturnedIndex :
          /\ returned[i].name = RemoteName
          /\ "http" \in DOMAIN returned[i].connection_params

\* C9 as stated: reconciling a reconciled garden again yields the identical
\* connection_type and connection_params and an empty list of notes.
C9_IdempotentNoNotes ==
    phase = "again" =>
        \A i \in ReturnedIndex :
            /\ recleaned[i].connection_type = returned[i].connection_type
            /\ recleaned[i].connection_params = returned[i].connection_params
            /\ notes[i] = << >>

\* C9 amended: reconciling a reconciled garden again yields the identical
\* connection_type and connection_params; the second run logs no note, except
\* that a garden of type HTTP without a stomp key gets the one note
\* "No stomp connection params provided" on every run.
C9_IdempotentParams ==
    phase = "again" =>
        \A i \in ReturnedIndex :
            /\ recleaned[i].connection_type = returned[i].connection_type
            /\ recleaned[i].connection_params = returned[i].connection_params
            /\ notes[i] = IF /\ returned[i].connection_type = "HTTP"
                             /\ "stomp" \notin DOMAIN returned[i].connection_params
                          THEN <<MsgNoStomp>> ELSE << >>

\* a garden whose stored parameters needed repair was reconciled twice
C9_Witness ==
    /\ phase = "again"
    /\ \E i \in ReturnedIndex :
          /\ returned[i].name = RemoteName
          /\ returned[i].connection_params # stored[RemoteName].connection_params
          /\ recleaned[i] = returned[i]

\* C10: a STOMP garden whose stomp params are missing, empty or invalid and whose
\* http params are absent or invalid is handed back with connection_type HTTP, no
\* stomp key, and schema-valid http params in which every default key is set and
\* holds the default unless the stored http params supplied that key.
C10_StompDemoted ==
    phase # "stored" =>
        \A i \in ReturnedIndex :
            LET before == stored[RemoteName]
                cp == returned[i].connection_params
            IN (/\ returned[i].name = RemoteName
                /\ before.connection_type = "STOMP"
                /\ Unusable(before.connection_params, "stomp")
                /\ Unusable(before.connection_params, "http"))
               => /\ returned[i].connection_type = "HTTP"
                  /\ DOMAIN cp = {"http"}
                  /\ ValidUnder(cp, "http")
                  /\ \A f \in DOMAIN _create_basic_connection_defaults :
                        /\ f \in DOMAIN cp["http"].d
                        /\ \/ cp["http"].d[f] = _create_basic_connection_defaults[f]
                           \/ f \in DOMAIN CpGet(before.connection_params, "http").d

\* a STOMP garden stored with invalid stomp and invalid http params was read
C10_Witness ==
    /\ phase = "read"
    /\ stored[RemoteName].connection_type = "STOMP"
    /\ "stomp" \in DOMAIN stored[RemoteName].connection_params
    /\ "http" \in DOMAIN stored[RemoteName].connection_params
    /\ ~stored[RemoteName].connection_params["stomp"].none
    /\ stored[RemoteName].connection_params["stomp"].d # EmptyDict
    /\ Unusable(stored[RemoteName].connection_params, "stomp")
    /\ Unusable(stored[RemoteName].connection_params, "http")
    /\ \E i \in ReturnedIndex :
          /\ returned[i].name = RemoteName
          /\ returned[i].connection_type = "HTTP"

-----------------------------------------------------------------------------
(* Claims about the reconciled remote garden (SpecClean) *)

\* the remote garden as stored, and where it stands among the returned gardens
Before == stored[RemoteName]

RemoteIndex == {i \in ReturnedIndex : returned[i].name = RemoteName}

\* the key is present and its value is None or fails its schema
Invalid(cp, key) == key \in DOMAIN cp /\ ~ValidUnder(cp, key)

\* what the key's schema loads from the value under the key
Loaded(cp, key) ==
    Params(IF key = "http" THEN _validate_http_connection_params(cp[key].d).data
           ELSE _validate_stomp_connection_params(cp[key].d).data)

Usable(cp, key) == key \in DOMAIN cp /\ ValidUnder(cp, key)

\* C11 as stated: a STOMP garden with invalid stomp and valid http params is
\* returned with connection_type HTTP, the stored http params and no stomp key.
C11_HttpAsStored ==
    \A i \in RemoteIndex :
        (/\ Before.connection_type = "STOMP"
         /\ Invalid(Before.connection_params, "stomp")
         /\ Usable(Before.connection_params, "http"))
        => /\ returned[i].connection_type = "HTTP"
           /\ DOMAIN returned[i].connection_params = {"http"}
           /\ returned[i].connection_params["http"] = Before.connection_params["http"]

\* C11 amended: a STOMP garden with invalid stomp and valid http params is
\* returned with connection_type HTTP, no stomp key, and the http params the
\* schema loads from the stored ones (ca_verify and ssl set to False where
\* missing, values coerced to the field types); these are the stored http params
\* when the stored ones need no such change.
C11_HttpAsLoaded ==
    \A i \in RemoteIndex :
        (/\ Before.connection_type = "STOMP"
         /\ Invalid(Before.connection_params, "stomp")
         /\ Usable(Before.connection_params, "http"))
        => /\ returned[i].connection_type = "HTTP"
           /\ DOMAIN returned[i].connection_params = {"http"}
           /\ returned[i].connection_params["http"] = Loaded(Before.connection_params, "http")
           /\ Canonical(Before.connection_params, "http")
                 => returned[i].connection_params["http"] = Before.connection_params["http"]

\* a STOMP garden with invalid stomp params and valid http params lacking
\* ca_verify was read
C11_Witness ==
    /\ phase = "read"
    /\ Before.connection_type = "STOMP"
    /\ Invalid(Before.connection_params, "stomp")
    /\ Usable(Before.connection_params, "http")
    /\ "ca_verify" \notin DOMAIN Before.connection_params["http"].d
    /\ \E i \in RemoteIndex :
          "ca_verify" \in DOMAIN returned[i].connection_params["http"].d

\* the http value is invalid or the empty dictionary
InvalidOrEmpty(cp, key) == Invalid(cp, key) /\ ~cp[key].none

\* C12 as stated: a STOMP garden with valid stomp params and http params that
\* are invalid or {} is returned with connection_type STOMP, the stored stomp
\* params and no http key.
C12_StompAsStored ==
    \A i \in RemoteIndex :
        (/\ Before.connection_type = "STOMP"
         /\ Usable(Before.connection_params, "stomp")
         /\ InvalidOrEmpty(Before.connection_params, "http"))
        => /\ returned[i].connection_type = "STOMP"
           /\ DOMAIN returned[i].connection_params = {"stomp"}
           /\ returned[i].connection_params["stomp"] = Before.connection_params["stomp"]

\* C12 amended: a STOMP garden with valid stomp params and http params that are
\* invalid or {} is returned with connection_type STOMP, no http key, and the
\* stomp params the schema loads from the stored ones (values coerced to the
\* field types); these are the stored stomp params when the stored ones need no
\* coercion.
C12_StompAsLoaded ==
    \A i \in RemoteIndex :
        (/\ Before.connection_type = "STOMP"
         /\ Usable(Before.connection_params, "stomp")
         /\ InvalidOrEmpty(Before.connection_params, "http"))
        => /\ returned[i].connection_type = "STOMP"
           /\ DOMAIN returned[i].connection_params = {"stomp"}
           /\ returned[i].connection_params["stomp"] =
                  Loaded(Before.connection_params, "stomp")
           /\ Canonical(Before.connection_params, "stomp")
                 => returned[i].connection_params["stomp"] =
                        Before.connection_params["stomp"]

\* a STOMP garden with the stomp port stored as text and invalid http params was read
C12_Witness ==
    /\ phase = "read"
    /\ Before.connection_type = "STOMP"
    /\ Usable(Before.connection_params, "stomp")
    /\ InvalidOrEmpty(Before.connection_params, "http")
    /\ Before.connection_params["http"].d # EmptyDict
    /\ Before.connection_params["stomp"].d["port"] = StrV("10119")
    /\ \E i \in RemoteIndex :
          returned[i].connection_params["stomp"].d["port"] = IntV(10119)

\* C13: an HTTP garden with no connection params at all is returned with
\* connection_type HTTP, no stomp key, and an http object that is schema-valid and
\* sets host, port, ssl, url_prefix, ca_cert, ca_verify and client_cert.
C13_HttpDefaults ==
    \A i \in RemoteIndex :
        (Before.connection_type = "HTTP" /\ Before.connection_params = EmptyCp)
        => /\ returned[i].connection_type = "HTTP"
           /\ DOMAIN returned[i].connection_params = {"http"}
           /\ ValidUnder(returned[i].connection_params, "http")
           /\ DOMAIN returned[i].connection_params["http"].d =
                  {"host", "port", "ssl", "url_prefix", "ca_cert", "ca_verify",
                   "client_cert"}
           /\ returned[i].connection_params["http"].d["host"] = StrV("child_hostname")
           /\ returned[i].connection_params["http"].d["url_prefix"] = StrV("/")
           /\ returned[i].connection_params["http"].d["ssl"] = BoolV(FALSE)
           /\ returned[i].connection_params["http"].d["ca_verify"] = BoolV(FALSE)

\* an HTTP garden stored without connection params was read
C13_Witness ==
    /\ phase = "read"
    /\ Before.connection_type = "HTTP"
    /\ Before.connection_params = EmptyCp
    /\ RemoteIndex # {}

\* C14 as stated: an HTTP garden with absent or invalid http params and valid
\* stomp params is returned with a schema-valid http object and the stored stomp
\* params.
C14_StompKeptAsStored ==
    \A i \in RemoteIndex :
        (/\ Before.connection_type = "HTTP"
         /\ Unusable(Before.connection_params, "http")
         /\ Usable(Before.connection_params, "stomp"))
        => /\ Usable(returned[i].connection_params, "http")
           /\ "stomp" \in DOMAIN returned[i].connection_params
           /\ returned[i].connection_params["stomp"] = Before.connection_params["stomp"]

\* C14 amended: an HTTP garden with absent or invalid http params and valid stomp
\* params is returned with connection_type HTTP, a schema-valid http object, and
\* the stomp params the schema loads from the stored ones (values coerced to the
\* field types); these are the stored stomp params when the stored ones need no
\* coercion.
C14_StompKeptAsLoaded ==
    \A i \in RemoteIndex :
        (/\ Before.connection_type = "HTTP"
         /\ Unusable(Before.connection_params, "http")
         /\ Usable(Before.connection_params, "stomp"))
        => /\ returned[i].connection_type = "HTTP"
           /\ Usable(returned[i].connection_params, "http")
           /\ "stomp" \in DOMAIN returned[i].connection_params
           /\ returned[i].connection_params["stomp"] =
                  Loaded(Before.connection_params, "stomp")
           /\ Canonical(Before.connection_params, "stomp")
                 => returned[i].connection_params["stomp"] =
                        Before.connection_params["stomp"]

\* an HTTP garden with invalid http params and use_ssl stored as text was read
C14_Witness ==
    /\ phase = "read"
    /\ Before.connection_type = "HTTP"
    /\ Invalid(Before.connection_params, "http")
    /\ Usable(Before.connection_params, "stomp")
    /\ Before.connection_params["stomp"].d["ssl.use_ssl"] = StrV("true")
    /\ \E i \in RemoteIndex :
          returned[i].connection_params["stomp"].d["ssl.use_ssl"] = BoolV(TRUE)

\* C15: an HTTP garden with valid http params and a stomp value that is {} or
\* fails validation is returned with connection_type HTTP and no stomp key.
C15_BadStompDropped ==
    \A i \in RemoteIndex :
        (/\ Before.connection_type = "HTTP"
         /\ Usable(Before.connection_params, "http")
         /\ InvalidOrEmpty(Before.connection_params, "stomp"))
        => /\ returned[i].connection_type = "HTTP"
           /\ "stomp" \notin DOMAIN returned[i].connection_params
           /\ "http" \in DOMAIN returned[i].connection_params

\* an HTTP garden with valid http params and non-empty invalid stomp params was read
C15_Witness ==
    /\ phase = "read"
    /\ Before.connection_type = "HTTP"
    /\ Usable(Before.connection_params, "http")
    /\ InvalidOrEmpty(Before.connection_params, "stomp")
    /\ Before.connection_params["stomp"].d # EmptyDict
    /\ \E i \in RemoteIndex : DOMAIN returned[i].connection_params = {"http"}

\* the remote garden has params under the key of its type only, and they are valid
ValidForType(type, key) ==
    /\ Before.connection_type = type
    /\ DOMAIN Before.connection_params = {key}
    /\ ValidUnder(Before.connection_params, key)

\* C16 as stated: a remote garden with schema-valid params under the key of its
\* type and no other key is returned with its type, the stored params under that
\* key and no other key.
C16_ValidUnchanged ==
    \A i \in RemoteIndex :
        /\ ValidForType("HTTP", "http")
              => /\ returned[i].connection_type = "HTTP"
                 /\ returned[i].connection_params = Before.connection_params
        /\ ValidForType("STOMP", "stomp")
              => /\ returned[i].connection_type = "STOMP"
                 /\ returned[i].connection_params = Before.connection_params

\* C16 amended: a remote garden with schema-valid params under the key of its
\* type and no other key is returned with its type, no other key, and under that
\* key the params its schema loads from the stored ones (for http: ca_verify and
\* ssl set to False where missing; for both: values coerced to the field types);
\* the garden is returned unchanged when the stored params need no such change.
C16_ValidAsLoaded ==
    \A i \in RemoteIndex :
        /\ ValidForType("HTTP", "http")
              => /\ returned[i].connection_type = "HTTP"
                 /\ DOMAIN returned[i].connection_params = {"http"}
                 /\ returned[i].connection_params["http"] =
                        Loaded(Before.connection_params, "http")
                 /\ Canonical(Before.connection_params, "http")
                       => returned[i].connection_params = Before.connection_params
        /\ ValidForType("STOMP", "stomp")
              => /\ returned[i].connection_type = "STOMP"
                 /\ DOMAIN returned[i].connection_params = {"stomp"}
                 /\ returned[i].connection_params["stomp"] =
                        Loaded(Before.connection_params, "stomp")
                 /\ Canonical(Before.connection_params, "stomp")
                       => returned[i].connection_params = Before.connection_params

\* a STOMP garden holding exactly the good stomp params was read and came back
\* as it was stored
C16_Witness ==
    /\ phase = "read"
    /\ ValidForType("STOMP", "stomp")
    /\ Before.connection_params["stomp"].d = good_stomp_params
    /\ \E i \in RemoteIndex : returned[i].connection_params = Before.connection_params

\* C17: the LOCAL garden is returned with connection_params = {} by get_garden,
\* get_gardens and local_garden, whatever connection_params are stored for it.
C17_LocalEmpty ==
    \A i \in ReturnedIndex :
        returned[i].connection_type = "LOCAL"
            => /\ returned[i].name = LocalName
               /\ returned[i].connection_params = EmptyCp

\* the LOCAL garden stored with connection params was read
C17_Witness ==
    /\ phase = "read"
    /\ stored[LocalName].connection_params # EmptyCp
    /\ \E i \in ReturnedIndex : returned[i].name = LocalName

\* C18: reconciliation never turns HTTP into STOMP and never changes the type of
\* a LOCAL garden; a STOMP garden comes back as STOMP or HTTP, and no garden
\* comes back as STOMP that was not stored as STOMP.
C18_OnlyDemotion ==
    \A i \in ReturnedIndex :
        /\ stored[returned[i].name].connection_type = "HTTP"
              => returned[i].connection_type = "HTTP"
        /\ stored[returned[i].name].connection_type = "LOCAL"
              => returned[i].connection_type = "LOCAL"
        /\ stored[returned[i].name].connection_type = "STOMP"
              => returned[i].connection_type \in {"STOMP", "HTTP"}
        /\ returned[i].connection_type = "STOMP"
              => stored[returned[i].name].connection_type = "STOMP"

\* an HTTP garden with unusable http params and valid stomp params was read
C18_Witness ==
    /\ phase = "read"
    /\ Before.connection_type = "HTTP"
    /\ Invalid(Before.connection_params, "http")
    /\ Usable(Before.connection_params, "stomp")
    /\ \E i \in RemoteIndex : returned[i].connection_type = "HTTP"

Salvaged == _validate_http_connection_params(
                Merge(_create_basic_connection_defaults,
                      Before.connection_params["http"].d))

\* a garden of type HTTP is stored with a dictionary of http params that fails
\* its schema
HttpNeedsRepair ==
    /\ Before.connection_type = "HTTP"
    /\ InvalidOrEmpty(Before.connection_params, "http")

\* C39 as stated: for an HTTP garden whose http params are present but invalid,
\* if the params merged over the defaults validate, the result holds the stored
\* value of every supplied field and the default of every other field; if they do
\* not, the result is exactly the defaults.
C39_SuppliedKept ==
    \A i \in RemoteIndex :
        HttpNeedsRepair
        => LET supplied == Before.connection_params["http"].d
               result == returned[i].connection_params["http"].d
           IN IF Salvaged.valid
              THEN result = Merge(_create_basic_connection_defaults, supplied)
              ELSE result = _create_basic_connection_defaults

\* C39 amended: if the params merged over the defaults validate, the result is
\* what the schema loads from the merged set: for every supplied field the value
\* the schema loads from the stored one (the stored value itself unless it is
\* coerced to the field's type), for every other default field the default;
\* if they do not validate, the result is exactly the defaults.
C39_SuppliedAsLoaded ==
    \A i \in RemoteIndex :
        HttpNeedsRepair
        => LET supplied == Before.connection_params["http"].d
               result == returned[i].connection_params["http"].d
           IN IF Salvaged.valid
              THEN /\ DOMAIN result = DOMAIN _create_basic_connection_defaults
                                          \cup DOMAIN supplied
                   /\ \A f \in DOMAIN supplied : result[f] = HttpField(supplied, f)
                   /\ \A f \in DOMAIN result \ DOMAIN supplied :
                         result[f] = _create_basic_connection_defaults[f]
                   /\ \A f \in DOMAIN supplied :
                         supplied[f] = HttpField(supplied, f) => result[f] = supplied[f]
              ELSE result = _create_basic_connection_defaults

\* http params without a host and with the port as a string were repaired: the
\* host is the default's, the port is the number the string stands for
C39_Witness ==
    /\ phase = "read"
    /\ HttpNeedsRepair
    /\ Salvaged.valid
    /\ "host" \notin DOMAIN Before.connection_params["http"].d
    /\ Get(Before.connection_params["http"].d, "port") = StrV("2337")
    /\ \E i \in RemoteIndex :
          /\ returned[i].connection_params["http"].d["port"] = IntV(2337)
          /\ returned[i].connection_params["http"].d["host"] =
                 _create_basic_connection_defaults["host"]

-----------------------------------------------------------------------------
(* Claims about handling events (Spec) *)

\* handle_event has finished handling the event held in last
Handled == last.op = "handle_event" /\ last.done

\* the record of the garden the handled event is about, before and after
Subject == IF last.event.name \in LifecycleEvents THEN last.event.payload.name
           ELSE last.event.payload.target_garden_name

\* no record other than the subject's was touched
OthersKept ==
    \A nm \in DOMAIN db \ {Subject} : nm \in DOMAIN last.before /\ db[nm] = last.before[nm]

PayloadPopulated == last.event.payload.connection_params # EmptyCp

\* C2: after handle_event created the record of an unknown direct child whose
\* lifecycle payload carried populated connection params, the persisted record has
\* connection_params = {}.
C2_CreatedWithoutParams ==
    (Handled /\ last.outcome = "created" /\ PayloadPopulated)
        => db[Subject].connection_params = EmptyCp

\* C3 as stated: after a lifecycle event of a known direct child, the persisted
\* connection_type and connection_params are exactly the ones stored before.
C3_ConnectionUntouched ==
    (Handled /\ last.outcome = "updated")
        => /\ db[Subject].connection_type = last.before[Subject].connection_type
           /\ db[Subject].connection_params = last.before[Subject].connection_params

\* C3 amended: after a lifecycle event of a known direct child, the persisted record
\* takes status, status_info, namespaces and systems (marked non-local) from the
\* payload and nothing else from it; its connection_type and connection_params are
\* the reconciliation of the ones stored before, hence exactly those whenever the
\* stored type was HTTP or STOMP with params under that type's key and every key
\* present held what its schema loads from it; no other record changes.
C3_ConnectionReconciled ==
    (Handled /\ last.outcome = "updated")
        => LET before == last.before[Subject]
               after == db[Subject]
               payload == last.event.payload
           IN /\ after.name = before.name
              /\ after.status = payload.status
              /\ after.heartbeat = payload.heartbeat
              /\ after.namespaces = payload.namespaces
              /\ Len(after.systems) = Len(payload.systems)
              /\ \A i \in 1..Len(after.systems) :
                    /\ ~after.systems[i].local
                    /\ after.systems[i].id = payload.systems[i].id
              /\ after.connection_type =
                     clean_garden_connection_params(before).connection_type
              /\ after.connection_params =
                     clean_garden_connection_params(before).connection_params
              /\ Settled(before)
                    => /\ after.connection_type = before.connection_type
                       /\ after.connection_params = before.connection_params
              /\ OthersKept

\* a known child whose stored params needed repair reported a populated payload
C3_Witness ==
    /\ Handled /\ last.outcome = "updated"
    /\ PayloadPopulated
    /\ Len(db[Subject].systems) = MaxSystems
    /\ db[Subject].connection_type # last.before[Subject].connection_type

DistressEvents == {"GARDEN_UNREACHABLE", "GARDEN_ERROR"}

Requested == IF last.event.name = "GARDEN_UNREACHABLE" THEN "UNREACHABLE" ELSE "ERROR"

\* a locally originated event about a garden that has a record was handled
HandledAbout(names) ==
    /\ Handled
    /\ last.event.garden = LocalName
    /\ last.event.name \in names
    /\ Subject \in DOMAIN last.before

\* C4: after a locally originated GARDEN_UNREACHABLE (GARDEN_ERROR) event the
\* target's status is UNREACHABLE (ERROR) if its status before was none of
\* UNREACHABLE, STOPPED, BLOCKED, ERROR, and is the status before otherwise.
C4_StickyDistress ==
    HandledAbout(DistressEvents)
        => LET current == last.before[Subject].status
           IN /\ Subject \in DOMAIN db
              /\ db[Subject].status =
                     IF current \in {"UNREACHABLE", "STOPPED", "BLOCKED", "ERROR"}
                     THEN current ELSE Requested
              /\ (last.outcome = "status_set") <=>
                     current \notin {"UNREACHABLE", "STOPPED", "BLOCKED", "ERROR"}

\* a garden in ERROR stayed in ERROR when GARDEN_UNREACHABLE was handled
C4_Witness ==
    /\ HandledAbout({"GARDEN_UNREACHABLE"})
    /\ last.before[Subject].status = "ERROR"
    /\ db[Subject].status = "ERROR"

\* C5 as stated: after GARDEN_NOT_CONFIGURED no status has changed; a target in
\* NOT_CONFIGURED has only its heartbeat refreshed, any other target is unchanged.
C5_OnlyHeartbeat ==
    HandledAbout({"GARDEN_NOT_CONFIGURED"})
        => /\ \A nm \in DOMAIN db : db[nm].status = last.before[nm].status
           /\ db[Subject] =
                  IF last.before[Subject].status = "NOT_CONFIGURED"
                  THEN [last.before[Subject] EXCEPT !.heartbeat = now]
                  ELSE last.before[Subject]
           /\ OthersKept

\* C5 amended: after GARDEN_NOT_CONFIGURED no status has changed; a target in
\* NOT_CONFIGURED has its heartbeat refreshed and its connection_type and
\* connection_params persisted as reconciled (unchanged when already settled), any
\* other target is unchanged; and no handled GARDEN_UNREACHABLE, GARDEN_ERROR or
\* GARDEN_NOT_CONFIGURED event leaves a garden in NOT_CONFIGURED that was not in
\* it before.
C5_NeverReached ==
    /\ HandledAbout({"GARDEN_NOT_CONFIGURED"})
        => /\ \A nm \in DOMAIN db : db[nm].status = last.before[nm].status
           /\ db[Subject] =
                  IF last.before[Subject].status = "NOT_CONFIGURED"
                  THEN [clean_garden_connection_params(last.before[Subject])
                           EXCEPT !.heartbeat = now]
                  ELSE last.before[Subject]
           /\ (last.before[Subject].status = "NOT_CONFIGURED"
                  /\ Settled(last.before[Subject]))
               => /\ db[Subject].connection_type = last.before[Subject].connection_type
                  /\ db[Subject].connection_params =
                         last.before[Subject].connection_params
           /\ OthersKept
    /\ HandledAbout(DistressEvents \cup {"GARDEN_NOT_CONFIGURED"})
        => \A nm \in DOMAIN db :
              db[nm].status = "NOT_CONFIGURED"
                  => last.before[nm].status = "NOT_CONFIGURED"

\* a garden in NOT_CONFIGURED with unusable stored params had its heartbeat refreshed
C5_Witness ==
    /\ HandledAbout({"GARDEN_NOT_CONFIGURED"})
    /\ last.before[Subject].status = "NOT_CONFIGURED"
    /\ db[Subject].heartbeat # last.before[Subject].heartbeat
    /\ db[Subject].connection_params # last.before[Subject].connection_params

-----------------------------------------------------------------------------
(* Claims about status writes (Spec) *)

\* the garden the finished operation wrote
Touched == IF last.op \in {"create_garden", "update_garden_config"}
           THEN last.event.payload.name
           ELSE Subject

\* an operation has finished that wrote a garden's status
WroteStatus ==
    /\ last.done
    /\ last.outcome \in {"created", "updated", "status_set", "config_set"}

Created == last.done /\ last.outcome = "created"

\* C19 as stated: every operation that writes a garden's status
\* (update_garden_status, update_garden_config, create_garden, the event-triggered
\* transitions) sets the heartbeat to the current time in the same write.
C19_EveryWriteRefreshes ==
    WroteStatus => db[Touched].heartbeat = now

\* C19 amended: update_garden_status (called directly or by the guarded
\* UNREACHABLE / ERROR / NOT_CONFIGURED transitions) and create_garden (called
\* directly or on first sight of a direct child) set the heartbeat to the current
\* time in the same write; update_garden_config sets the status to INITIALIZING and
\* leaves the heartbeat as stored; the update of a known child by handle_event takes
\* status and heartbeat from the event's payload.
C19_HeartbeatByOperation ==
    WroteStatus
        => /\ Touched \in DOMAIN db
           /\ last.outcome \in {"status_set", "created"}
                  => db[Touched].heartbeat = now
           /\ last.outcome = "config_set"
                  => /\ db[Touched].status = "INITIALIZING"
                     /\ db[Touched].heartbeat = last.before[Touched].heartbeat
           /\ last.outcome = "updated"
                  => /\ db[Touched].status = last.event.payload.status
                     /\ db[Touched].heartbeat = last.event.payload.heartbeat

\* update_garden_config put a garden back in INITIALIZING with its old heartbeat
C19_Witness ==
    /\ last.done
    /\ last.op = "update_garden_config"
    /\ last.before[Touched].status # "INITIALIZING"
    /\ db[Touched].status = "INITIALIZING"
    /\ db[Touched].heartbeat # now

\* C20 as stated: the status of a garden record right after its creation is
\* INITIALIZING, whether created by create_garden or by handle_event on first sight
\* of a direct child.
C20_CreatedInitializing ==
    Created => db[Touched].status = "INITIALIZING"

\* C20 amended: the status of a garden record right after its creation is the
\* status of the garden that was handed to create_garden: the one the caller gave,
\* or, when handle_event creates the record on first sight of a direct child, the
\* one the child's event payload reports.
C20_CreatedAsGiven ==
    Created
        => /\ Touched \notin DOMAIN last.before
           /\ Touched \in DOMAIN db
           /\ db[Touched].status = last.event.payload.status

\* handle_event created the record of a child that reported itself RUNNING
C20_Witness ==
    /\ Created
    /\ last.op = "handle_event"
    /\ last.event.payload.status = "RUNNING"
    /\ db[Touched].status = "RUNNING"

-----------------------------------------------------------------------------
(* Claims about lifecycle events (Spec) *)

\* the lifecycle event handled before was handled a second time
HandledAgain == last.op = "handle_event_again" /\ last.done

\* C21 as stated: handling the same lifecycle event of a direct child a second time
\* leaves the persisted record identical to the record after the first handling,
\* also when the first handling created the record.
C21_RepeatIdentical ==
    HandledAgain => db = last.before

\* C21 amended: handling the same lifecycle event of a direct child a second time
\* leaves status, namespaces, systems, connection_type and connection_params of
\* the record, and every other record, as they were after the first handling, and
\* sets the heartbeat to the payload's; every handling that updates an existing
\* record leaves the payload's heartbeat, so a repeat after an update changes
\* nothing, while a repeat after a creation replaces the creation time by the
\* payload's heartbeat.
C21_RepeatButHeartbeat ==
    /\ HandledAgain
        => /\ last.outcome = "updated"
           /\ db[Subject] = [last.before[Subject] EXCEPT
                                !.heartbeat = last.event.payload.heartbeat]
           /\ OthersKept
    /\ (last.done /\ last.op \in {"handle_event", "handle_event_again"}
            /\ last.outcome = "updated")
        => db[Subject].heartbeat = last.event.payload.heartbeat
    /\ (Handled /\ last.outcome = "created") => db[Subject].heartbeat = now

\* the repeat of an event that had created the record changed the heartbeat
C21_Witness ==
    /\ HandledAgain
    /\ db[Subject].heartbeat # last.before[Subject].heartbeat
    /\ Len(db[Subject].systems) > 0

\* a lifecycle event was handled, for the first time or again
HandledLifecycle ==
    /\ last.done
    /\ last.op \in {"handle_event", "handle_event_again"}

IsSystemUpdated(event) == event.name = "SYSTEM_UPDATED"

\* C22: after handle_event created or updated a record for a lifecycle event, the
\* events published are the record's GARDEN_CREATED / GARDEN_UPDATED event carrying
\* the persisted record, followed by exactly one SYSTEM_UPDATED event per system of
\* that record, in order, each tagged with the event's origin garden and carrying
\* the system; a handling that wrote no record publishes no SYSTEM_UPDATED event.
C22_OnePerSystem ==
    HandledLifecycle
        => IF last.outcome \in {"created", "updated"}
           THEN /\ Len(published) = 1 + Len(db[Subject].systems)
                /\ published[1].payload = db[Subject]
                /\ published[1].name =
                       (IF last.outcome = "created" THEN "GARDEN_CREATED"
                                                    ELSE "GARDEN_UPDATED")
                /\ \A i \in 1..Len(db[Subject].systems) :
                       published[i + 1] = Event("SYSTEM_UPDATED", last.event.garden,
                                                db[Subject].systems[i])
           ELSE SelectSeq(published, IsSystemUpdated) = << >>

\* a child reporting two systems was created and two SYSTEM_UPDATED events went out
C22_Witness ==
    /\ Handled
    /\ last.outcome = "created"
    /\ Len(db[Subject].systems) = 2
    /\ Len(SelectSeq(published, IsSystemUpdated)) = 2
    /\ published[3].garden = RemoteName

\* C23: a lifecycle event (GARDEN_STARTED, GARDEN_UPDATED, GARDEN_STOPPED,
\* GARDEN_SYNC) whose origin is the local garden changes no garden record and
\* publishes no event.
C23_OwnLifecycleIgnored ==
    (Handled /\ last.event.name \in LifecycleEvents /\ last.event.garden = LocalName)
        => /\ db = last.before
           /\ published = << >>
           /\ last.outcome = "ignored"

\* the local garden's own GARDEN_SYNC came back and was handled
C23_Witness ==
    /\ Handled
    /\ last.event.name = "GARDEN_SYNC"
    /\ last.event.garden = LocalName
    /\ last.event.payload.name = LocalName
    /\ db = last.before

\* C24: a lifecycle event from a downstream garden whose payload names another
\* garden than its origin creates no record, updates no record and publishes no
\* event; whenever handling an event created a record, the event was a lifecycle
\* event in which a downstream garden reported on itself.
C24_RelayedIgnored ==
    /\ (Handled /\ last.event.name \in LifecycleEvents
            /\ last.event.garden # LocalName
            /\ last.event.payload.name # last.event.garden)
        => /\ db = last.before
           /\ published = << >>
           /\ last.outcome = "ignored"
    /\ (Handled /\ DOMAIN db # DOMAIN last.before)
        => /\ last.event.name \in LifecycleEvents
           /\ last.event.garden # LocalName
           /\ last.event.payload.name = last.event.garden
           /\ DOMAIN db = DOMAIN last.before \cup {last.event.garden}

\* a downstream garden's report about another garden that has a record was handled
C24_Witness ==
    /\ Handled
    /\ last.event.name \in LifecycleEvents
    /\ last.event.garden = GrandchildName
    /\ last.event.payload.name = RemoteName
    /\ RemoteName \in DOMAIN last.before
    /\ last.before[RemoteName].status # last.event.payload.status
    /\ db = last.before

-----------------------------------------------------------------------------
(* Claims about removal and system mapping (SpecAdmin) *)

Removed == last.done /\ last.op = "remove_garden" /\ last.outcome = "removed"

\* C25: after remove_garden(name) succeeded, the garden's record is deleted and no
\* system listed in the garden's systems is left in the system registry.
C25_OwnedSystemsRemoved ==
    Removed
        => /\ last.event.garden \notin DOMAIN db
           /\ \A owned \in Range(last.before[last.event.garden].systems) :
                 owned \notin registry

\* C26: garden_add_system for a garden name that has no record fails with
\* PluginError, not with the repository's DoesNotExist, leaves every garden record
\* and the registry unchanged and publishes no event.
C26_UnknownGardenPluginError ==
    (last.done /\ last.op = "garden_add_system"
        /\ ~GardenExists(last.before, last.event.garden))
        => /\ last.outcome = "PluginError"
           /\ db = last.before
           /\ published = << >>

\* a system was to be mapped to a garden without a record, after the only child
\* had been removed
C26_Witness ==
    /\ last.done
    /\ last.op = "garden_add_system"
    /\ last.event.garden = GrandchildName
    /\ last.outcome = "PluginError"
    /\ DOMAIN db = {LocalName}

-----------------------------------------------------------------------------
(* Claims about reconciling stored values of any shape (SpecRaw) *)

RequiredHttp == {"host", "port", "url_prefix", "ca_verify", "ssl"}

\* every required http field of the garden holds a value
RequiredSet(garden) ==
    /\ "http" \in DOMAIN garden.connection_params
    /\ ~garden.connection_params["http"].none
    /\ \A f \in RequiredHttp :
          /\ f \in DOMAIN garden.connection_params["http"].d
          /\ garden.connection_params["http"].d[f].k \notin {"none", "missing", "invalid"}

\* C27: for every connection_type and every stored connection_params value, also
\* with http or stomp values that are null, empty, no dictionary or carrying
\* unknown keys, clean_garden_connection_params ends with a result and lets no
\* error reach its caller; a result of type HTTP has every required http field set.
C27_AlwaysSalvaged ==
    /\ phase # "raised"
    /\ phase = "read"
        => (returned[1].connection_type = "HTTP" => RequiredSet(returned[1]))

StoredHttp == CpGet(stored[RemoteName].connection_params, "http")

\* the stored garden went through the default-filling policy for http
DefaultPolicyRead ==
    /\ phase = "read"
    /\ stored[RemoteName].connection_type = "HTTP"

IsHttpDefaultNote(msg) == msg \in {MsgAllDefaults, MsgSomeDefaults}

HttpNotes == SelectSeq(notes[1], IsHttpDefaultNote)

Repairable(params) ==
    _validate_http_connection_params(Merge(_create_basic_connection_defaults, params.d)).valid

\* C28 as stated: for a garden of type HTTP each fallback step has a note of its
\* own: "all values" when http is absent, "some values" when invalid http was
\* repaired over the defaults, and a note that is neither when http was invalid
\* and past repair.
C28_ThreeNotes ==
    DefaultPolicyRead
        => IF StoredHttp.none
           THEN HttpNotes = <<MsgAllDefaults>>
           ELSE IF _validate_http_connection_params(StoredHttp.d).valid
           THEN HttpNotes = << >>
           ELSE IF Repairable(StoredHttp)
           THEN HttpNotes = <<MsgSomeDefaults>>
           ELSE /\ Len(notes[1]) > 0
                /\ HttpNotes = << >>

\* C28 amended: for a garden of type HTTP there are two notes: "some values" when
\* invalid http was repaired over the defaults, and "all values" both when http was
\* absent and when it was invalid and past repair; valid http has no note, and an
\* http value that is no dictionary ends the reconciliation without any note.
C28_TwoNotes ==
    /\ DefaultPolicyRead
        => HttpNotes =
              (IF StoredHttp.none
               THEN <<MsgAllDefaults>>
               ELSE IF _validate_http_connection_params(StoredHttp.d).valid
               THEN << >>
               ELSE IF Repairable(StoredHttp)
               THEN <<MsgSomeDefaults>>
               ELSE <<MsgAllDefaults>>)
    /\ phase = "raised" => notes = << >>

\* invalid http past repair was replaced by the defaults with the "all values" note
C28_Witness ==
    /\ DefaultPolicyRead
    /\ ~StoredHttp.none
    /\ ~_validate_http_connection_params(StoredHttp.d).valid
    /\ ~Repairable(StoredHttp)
    /\ HttpNotes = <<MsgAllDefaults>>
    /\ returned[1].connection_params["http"].d = _create_basic_connection_defaults

-----------------------------------------------------------------------------
(* Claims about validation (SpecValidate) *)

Validated == phase = "validated"

GoodOf(schema) == IF schema = "http" THEN good_http_params ELSE good_stomp_params

\* the input is a fixture but for its port, which is an integer
OnlyPortVaries ==
    /\ Validated
    /\ Get(stored.d, "port").k = "int"
    /\ Pop(stored.d, "port") = Pop(GoodOf(stored.schema), "port")

\* C29: http and stomp validation accept an integer port p if and only if
\* 0 < p < 65535, both bounds excluded: 0 and 65535 are rejected, 1 and 65534
\* accepted.
C29_PortRange ==
    OnlyPortVaries
        => /\ returned[1].valid <=> (0 < stored.d["port"].n /\ stored.d["port"].n < 65535)
           /\ returned[1].valid => returned[1].data["port"] = stored.d["port"]

\* a stomp port of 65534 was accepted
C29_Witness ==
    /\ OnlyPortVaries
    /\ stored.schema = "stomp"
    /\ stored.d["port"].n = 65534
    /\ returned[1].valid

\* the keys the schema has fields for, the nested ssl schema included
KnownKeys(schema) ==
    IF schema = "http" THEN HttpFields ELSE StompFields \cup StompSslFields

\* what the field of a key makes of the input's value
FieldOf(schema, d, key) ==
    IF schema = "http" THEN HttpField(d, key)
    ELSE IF key \in StompSslFields THEN SslField(d, key)
    ELSE StompField(d, key, LoadSsl(d).valid)

RequiredKeys(schema) ==
    IF schema = "http" THEN {"host", "port", "url_prefix"}
    ELSE {"host", "port", "ssl", "ssl.use_ssl"}

\* C30: validation of an http or stomp parameter set fails whenever the set has a
\* key that is no field of the schema; a set with only known keys and valid values
\* has no key counted as extraneous, and fails only if a required key is missing.
C30_ClosedSchemas ==
    Validated
        => /\ (DOMAIN stored.d \ KnownKeys(stored.schema) # {}) => ~returned[1].valid
           /\ (/\ DOMAIN stored.d \subseteq KnownKeys(stored.schema)
               /\ \A key \in DOMAIN stored.d :
                     FieldOf(stored.schema, stored.d, key).k # "invalid")
               => /\ ExtraKeys(stored.d, returned[1].data) = {}
                  /\ returned[1].valid
                         <=> RequiredKeys(stored.schema) \subseteq DOMAIN stored.d

\* the http fixture with one unknown key added was rejected
C30_Witness ==
    /\ Validated
    /\ stored.schema = "http"
    /\ Pop(stored.d, "unknown") = good_http_params
    /\ "unknown" \in DOMAIN stored.d
    /\ ~returned[1].valid

-----------------------------------------------------------------------------
(* Claims about reports, guarded transitions and configuration (Spec) *)

\* C35: after a lifecycle event of a known direct child was handled, the persisted
\* status is the payload's status whatever the status stored before, also when
\* that was BLOCKED, STOPPED, ERROR or UNREACHABLE.
C35_LifecycleUnguarded ==
    (HandledLifecycle /\ last.outcome = "updated")
        => /\ Subject \in DOMAIN last.before
           /\ db[Subject].status = last.event.payload.status

\* a child stored as BLOCKED reported itself RUNNING
C35_Witness ==
    /\ Handled /\ last.outcome = "updated"
    /\ last.before[Subject].status = "BLOCKED"
    /\ last.event.payload.status = "RUNNING"
    /\ db[Subject].status = "RUNNING"

GuardedEvents == {"GARDEN_UNREACHABLE", "GARDEN_ERROR", "GARDEN_NOT_CONFIGURED"}

\* C36: a GARDEN_UNREACHABLE, GARDEN_ERROR or GARDEN_NOT_CONFIGURED event whose
\* origin is not the local garden changes no garden's status or heartbeat.
C36_ForeignDistressIgnored ==
    (Handled /\ last.event.name \in GuardedEvents /\ last.event.garden # LocalName)
        => /\ DOMAIN db = DOMAIN last.before
           /\ \A nm \in DOMAIN db :
                 /\ db[nm].status = last.before[nm].status
                 /\ db[nm].heartbeat = last.before[nm].heartbeat
           /\ last.outcome = "ignored"

\* a child's GARDEN_UNREACHABLE about itself arrived while its record was RUNNING
\* with an older heartbeat
C36_Witness ==
    /\ Handled
    /\ last.event.name = "GARDEN_UNREACHABLE"
    /\ last.event.garden = RemoteName
    /\ last.event.payload.target_garden_name = RemoteName
    /\ RemoteName \in DOMAIN db
    /\ db[RemoteName].status = "RUNNING"
    /\ db[RemoteName].heartbeat # now

\* C37: after each lifecycle event of a direct child in whatever sequence, the
\* persisted status, namespaces and systems of the child's record are those of the
\* event handled last (its systems as the handler marked them, non-local), also
\* when that event's heartbeat is older than the one stored before.
C37_LastWriteWins ==
    (HandledLifecycle /\ last.outcome \in {"created", "updated"})
        => /\ db[Subject].status = last.event.payload.status
           /\ db[Subject].namespaces = last.event.payload.namespaces
           /\ db[Subject].systems = NonLocal(last.event.payload.systems)

\* a report older than the stored heartbeat replaced status and systems
C37_Witness ==
    /\ Handled /\ last.outcome = "updated"
    /\ last.event.payload.heartbeat < last.before[Subject].heartbeat
    /\ last.event.payload.status # last.before[Subject].status
    /\ Len(last.event.payload.systems) < Len(last.before[Subject].systems)
    /\ db[Subject].status = last.event.payload.status
    /\ db[Subject].systems = NonLocal(last.event.payload.systems)

ConfigSet == last.done /\ last.op = "update_garden_config"

\* C38: after update_garden_config(g) the persisted record of g has status
\* INITIALIZING whatever its status before, its connection_type and
\* connection_params are the reconciliation of g's type and params, and its name,
\* namespaces and systems are as stored before.
C38_ConfigFrame ==
    ConfigSet
        => /\ db[Touched].status = "INITIALIZING"
           /\ db[Touched].connection_type =
                  clean_garden_connection_params(last.event.payload).connection_type
           /\ db[Touched].connection_params =
                  clean_garden_connection_params(last.event.payload).connection_params
           /\ db[Touched].name = last.before[Touched].name
           /\ db[Touched].namespaces = last.before[Touched].namespaces
           /\ db[Touched].systems = last.before[Touched].systems
           /\ \A nm \in DOMAIN db \ {Touched} :
                 nm \in DOMAIN last.before /\ db[nm] = last.before[nm]

\* a STOMP configuration with invalid stomp params was persisted as HTTP for a
\* stopped child that has systems
C38_Witness ==
    /\ ConfigSet
    /\ last.before[Touched].status = "STOPPED"
    /\ last.event.payload.connection_type = "STOMP"
    /\ db[Touched].connection_type = "HTTP"
    /\ Len(db[Touched].systems) > 0
    /\ db[Touched].status = "INITIALIZING"

-----------------------------------------------------------------------------
(* Claims about events handed back (SpecFeedback) *)

FedBack == last.op = "handle_event_fed" /\ last.done

OwnEvents == {"GARDEN_CREATED", "GARDEN_UPDATED", "GARDEN_REMOVED", "SYSTEM_UPDATED"}

\* C40: handing back to handle_event an event this garden published while it
\* handled an event or an operation (GARDEN_CREATED, GARDEN_UPDATED, GARDEN_REMOVED
\* of local origin, SYSTEM_UPDATED tagged with a child's name) changes no garden
\* record and publishes no event, so nothing is left to hand back.
C40_FeedbackInert ==
    /\ \A i \in 1..Len(published) :
          /\ published[i].name \in OwnEvents
          /\ published[i].garden = LocalName <=> published[i].name # "SYSTEM_UPDATED"
    /\ FedBack
         => /\ db = last.before
            /\ published = << >>
            /\ last.outcome = "ignored"
            /\ ~ENABLED Feedback

\* the GARDEN_UPDATED event of a child's report was handed back
C40_Witness ==
    /\ FedBack
    /\ last.event.name = "GARDEN_UPDATED"
    /\ last.event.garden = LocalName
    /\ last.event.payload.name = RemoteName
    /\ Len(last.event.payload.systems) > 0

-----------------------------------------------------------------------------
(* Claims about invocations running at the same time (SpecRace) *)

\* C32: however a GARDEN_UNREACHABLE or GARDEN_ERROR handler interleaves with other
\* writers of the same garden's status, the status its write replaces is none of
\* UNREACHABLE, STOPPED, BLOCKED, ERROR.
C32_StickyUnderInterleaving ==
    \A i \in DOMAIN inflight :
        (IsDistress(inflight[i]) /\ inflight[i].outcome = "status_set")
            => inflight[i].overwrote \notin {"UNREACHABLE", "STOPPED", "BLOCKED", "ERROR"}

\* C33: however two handle_event invocations for lifecycle events of the same
\* unknown direct child interleave, once both have ended one has created the
\* child's record and the other has updated it.
C33_OneCreatesOtherUpdates ==
    (/\ \A i \in DOMAIN inflight : IsLifecycle(inflight[i]) /\ inflight[i].pc = "done"
     /\ \E i \in DOMAIN inflight : inflight[i].outcome = "created")
        => /\ Cardinality({i \in DOMAIN inflight : inflight[i].outcome = "created"}) = 1
           /\ \A i \in DOMAIN inflight : inflight[i].outcome \in {"created", "updated"}

-----------------------------------------------------------------------------
(* Claims about synchronisation (SpecTree) *)

\* garden_sync has returned at the garden last.at
Synced == last.op = "garden_sync" /\ last.done

SyncDb == federation[last.at].db

KnownRemote == {nm \in DOMAIN SyncDb : SyncDb[nm].connection_type # "LOCAL"}

\* C6: garden_sync with sync_target unset routes exactly one GARDEN_SYNC operation
\* per known non-local garden, none to the local garden and none twice, each with
\* target_garden_name and kwargs.sync_target equal to that garden's name, and
\* publishes no event.
C6_FanOutOnePerGarden ==
    (Synced /\ ~Truthy(last.sync_target))
        => /\ published = << >>
           /\ Len(routed) = Cardinality(KnownRemote)
           /\ \A nm \in KnownRemote :
                 Cardinality({i \in 1..Len(routed) :
                                 routed[i].target_garden_name = nm}) = 1
           /\ \A i \in 1..Len(routed) :
                 /\ routed[i].operation_type = "GARDEN_SYNC"
                 /\ routed[i].target_garden_name \in KnownRemote
                 /\ routed[i].kwargs.sync_target = StrV(routed[i].target_garden_name)

\* the root, knowing three gardens, fanned out without a sync_target
C6_Witness ==
    /\ Synced /\ last.at = Root /\ ~Truthy(last.sync_target)
    /\ Cardinality(KnownRemote) = 3
    /\ Len(routed) = 3

\* C7: garden_sync with sync_target set publishes exactly one GARDEN_SYNC event
\* whose payload is the local garden with every registered system, local or not,
\* status RUNNING, no connection_type and empty connection_params, and routes no
\* operation.
C7_PublishesSnapshot ==
    (Synced /\ Truthy(last.sync_target))
        => /\ routed = << >>
           /\ Len(published) = 1
           /\ published[1].name = "GARDEN_SYNC"
           /\ published[1].payload.name = GardenNames[last.at]
           /\ published[1].payload.status = "RUNNING"
           /\ published[1].payload.connection_type = "NONE"
           /\ published[1].payload.connection_params = EmptyCp
           /\ Len(published[1].payload.systems) =
                  Cardinality(federation[last.at].registry)
           /\ \A s \in federation[last.at].registry :
                 \E i \in 1..Len(published[1].payload.systems) :
                    published[1].payload.systems[i] = s

\* a garden with stored LOCAL params and a non-local system published itself
C7_Witness ==
    /\ Synced /\ Truthy(last.sync_target)
    /\ LocalRecord(SyncDb).connection_params # EmptyCp
    /\ \E s \in federation[last.at].registry : ~s.local
    /\ Len(published) = 1

\* the snapshots the garden i has published
SnapshotsOf(i) ==
    {snapshots[j].event.payload : j \in {n \in 1..Len(snapshots) : snapshots[n].at = i}}

\* the root's record of each of its direct children has the status, namespaces and
\* systems of the snapshot the child published, every system marked non-local
SyncedUp ==
    \A i \in DOMAIN federation :
        federation[i].parent = Root
        => /\ GardenNames[i] \in DOMAIN federation[Root].db
           /\ \E snapshot \in SnapshotsOf(i) :
                 LET record == federation[Root].db[GardenNames[i]]
                 IN /\ record.status = snapshot.status
                    /\ record.namespaces = snapshot.namespaces
                    /\ Len(record.systems) = Len(snapshot.systems)
                    /\ \A n \in 1..Len(record.systems) :
                          /\ ~record.systems[n].local
                          /\ record.systems[n] = [snapshot.systems[n] EXCEPT
                                                     !.local = FALSE]

\* C34: if the root runs garden_sync with no sync_target, the router delivers
\* every routed operation and the bus every published event, then eventually the
\* root's record of each direct child has status, namespaces and systems equal to
\* the GARDEN_SYNC snapshot that child published, every system marked local = false.
C34_EventuallySynced == (started /\ ~Truthy(request)) ~> SyncedUp

\* the root holds the snapshots of two children whose systems include local ones
C34_Witness ==
    /\ started /\ ~Truthy(request)
    /\ SyncedUp
    /\ Cardinality({i \in DOMAIN federation : federation[i].parent = Root}) >= 2
    /\ \A i \in DOMAIN federation :
          federation[i].parent = Root
          => /\ Len(federation[Root].db[GardenNames[i]].systems) = MaxSystems
             /\ \E s \in federation[i].registry : s.local

\* nothing is left to run or to deliver
Quiescent == started /\ last.done /\ inflight = {}

ReceivedAt(i) == {j \in 1..Len(received) : received[j].at = i}

PublishedAt(i) == {j \in 1..Len(snapshots) : snapshots[j].at = i}

\* C8 as stated: once a sync originated at the root with no sync_target has run
\* to the end, a routed GARDEN_SYNC operation has reached every garden below the
\* root.
C8_ReachesSubtree ==
    (Quiescent /\ ~Truthy(request))
        => \A i \in DOMAIN federation \ {Root} : ReceivedAt(i) # {}

\* C8 amended: a sync originated at the root with no sync_target fans out one
\* level only: exactly one routed GARDEN_SYNC operation reaches each direct child
\* of the root, naming that child as sync_target; each child publishes one
\* snapshot of itself and routes nothing; no operation reaches a garden further
\* down.
C8_OneLevelOnly ==
    /\ \A j \in 1..Len(received) :
          /\ federation[received[j].at].parent = Root
          /\ received[j].op.kwargs.sync_target = StrV(GardenNames[received[j].at])
    /\ \A m \in inflight : m.from = Root
    /\ (Quiescent /\ ~Truthy(request))
          => \A i \in DOMAIN federation :
                IF federation[i].parent = Root
                THEN Cardinality(ReceivedAt(i)) = 1 /\ Cardinality(PublishedAt(i)) = 1
                ELSE ReceivedAt(i) = {} /\ PublishedAt(i) = {}

\* a sync over a tree with a grandchild has run to the end
C8_Witness ==
    /\ Quiescent /\ ~Truthy(request)
    /\ \E i \in DOMAIN federation : federation[i].parent \notin {0, Root}
    /\ \E i \in DOMAIN federation : ReceivedAt(i) # {}

====
